---- MODULE Spec2Model ----
(***************************************************************************)
(* Model of rappit's request history (src/src/app/history_manager.py) and  *)
(* of the send / response path of the main window (src/src/app/window.py,  *)
(* src/src/app/request_handler.py).                                        *)
(*                                                                         *)
(* history_data is a Python dict: it keeps its keys in insertion order, an *)
(* assignment to an existing key keeps the key's position, del removes it. *)
(* It is modelled as a sequence of entries in insertion order.             *)
(* history_list is the Gtk.ListBox: the sequence of its rows, top first.   *)
(***************************************************************************)
EXTENDS Integers, Sequences, FiniteSets, TLC

VARIABLES
    history_data,   \* HistoryManager.history_data, entries in dict order
    history_list,   \* HistoryManager.history_list, rows from top to bottom
    last,           \* observer: the last call made on the HistoryManager
    touched,        \* observer: fingerprints by last insert-or-update, newest first
    log,            \* observer: fingerprints recorded so far while only new ones were recorded
    used,           \* environment: number of fingerprints introduced so far
    extra,          \* environment: number of calls made other than first-time records
    calls,          \* observer: the <<method, url>> of the add_to_history calls made
    user,           \* environment: number of edits and accepted sends the user made
    method_combo,   \* MainWindow.method_combo, the active text
    url_entry,      \* MainWindow.url_entry, its text
    body_text,      \* MainWindow.body_text, the text of its buffer
    send_btn,       \* MainWindow.send_btn is sensitive
    progress_bar,   \* MainWindow.progress_bar is visible
    threads,        \* the worker threads started by on_send_clicked, one per accepted send
    pending,        \* callbacks waiting to run, in the order they were scheduled
    running,        \* update_ui callbacks that have begun and not returned
    delivered,      \* observer: the requests whose update_ui has returned, in that order
    arg_content,       \* the text passed to the Formatter
    arg_content_type,  \* the type hint passed to the Formatter, <<>> for None
    outcome            \* the call made on the Formatter and what came of it

hmVars == <<history_data, history_list>>
obsVars == <<last, touched, log>>
envVars == <<used, extra, calls, user>>
winVars == <<method_combo, url_entry, body_text, send_btn, progress_bar,
             threads, pending, running, delivered>>

fmtVars == <<arg_content, arg_content_type, outcome>>

vars == <<hmVars, obsVars, envVars, winVars, fmtVars>>

----------------------------------------------------------------------------
(* Program constants and bounds of the model *)

max_items == 20

\* number of distinct fingerprints the environment can introduce
NKeys == 22
\* calls other than the first record of a fingerprint (re-record, remove, clear)
MaxExtra == 1
\* the fingerprints (by order of introduction) that re-record and remove address
HotKeys == 2
\* add_to_history calls with arbitrary method and url strings
MaxCalls == 2
\* actions of the user in the main window: edits of the request and accepted sends
MaxUser == 4
\* sends the user makes in the main window
MaxSends == 2
\* calls on the history that follow the formatting of a response
MaxRecorded == 2
\* length of the texts over the alphabet that are passed to the Formatter
MaxLen == 3
\* number of lines of the texts that are passed to the manual indenters
MaxLines == 4
\* calls of add_to_history before a row of the history list is activated
MaxStored == 3
\* depth of nested arrays and objects at which json.loads raises RecursionError
\* (the recursion limit of the interpreter, 1000 by default)
RecursionLimit == 5

----------------------------------------------------------------------------
(* Sequence helpers *)

Range(s) == { s[i] : i \in DOMAIN s }

Reverse(s) == [ i \in 1..Len(s) |-> s[Len(s) + 1 - i] ]

\* s without the occurrences of x (order kept)
Without(s, x) == SelectSeq(s, LAMBDA e : e # x)

----------------------------------------------------------------------------
(* Text: a Python str is modelled as the sequence of its characters *)

\* the characters str.strip() and the regex class \s remove
WS == { " ", "\n", "\t", "\r" }

UpperCase == <<"A", "B", "C", "D", "E", "F", "G", "H", "I", "J", "K", "L", "M",
               "N", "O", "P", "Q", "R", "S", "T", "U", "V", "W", "X", "Y", "Z">>
LowerCase == <<"a", "b", "c", "d", "e", "f", "g", "h", "i", "j", "k", "l", "m",
               "n", "o", "p", "q", "r", "s", "t", "u", "v", "w", "x", "y", "z">>
Digits == { "0", "1", "2", "3", "4", "5", "6", "7", "8", "9" }
Letters == Range(UpperCase) \cup Range(LowerCase)

RECURSIVE lstrip(_)
lstrip(s) == IF s # <<>> /\ Head(s) \in WS THEN lstrip(Tail(s)) ELSE s

RECURSIVE rstrip(_)
rstrip(s) ==
    IF s # <<>> /\ s[Len(s)] \in WS THEN rstrip(SubSeq(s, 1, Len(s) - 1)) ELSE s

strip(s) == rstrip(lstrip(s))

\* s[i-1:].startswith(p), i counted from 1
StartsAt(s, i, p) == i + Len(p) - 1 <= Len(s) /\ SubSeq(s, i, i + Len(p) - 1) = p

startswith(s, p) == StartsAt(s, 1, p)

endswith(s, p) == Len(p) <= Len(s) /\ SubSeq(s, Len(s) - Len(p) + 1, Len(s)) = p

\* p in s
contains(s, p) == \E i \in 1..(Len(s) - Len(p) + 1) : StartsAt(s, i, p)

lower(s) ==
    [ i \in 1..Len(s) |->
        IF \E k \in 1..26 : UpperCase[k] = s[i]
        THEN LowerCase[CHOOSE k \in 1..26 : UpperCase[k] = s[i]]
        ELSE s[i] ]

\* s.split('\n'), the current line being cur
RECURSIVE SplitLines(_, _)
SplitLines(s, cur) ==
    IF s = <<>> THEN <<cur>>
    ELSE IF Head(s) = "\n" THEN <<cur>> \o SplitLines(Tail(s), <<>>)
    ELSE SplitLines(Tail(s), Append(cur, Head(s)))

split(s) == SplitLines(s, <<>>)

\* '\n'.join(lines)
RECURSIVE join(_)
join(lines) ==
    IF lines = <<>> THEN <<>>
    ELSE IF Len(lines) = 1 THEN lines[1]
    ELSE lines[1] \o <<"\n">> \o join(Tail(lines))

\* variant: one space for each level
IndentOne(level) == [ i \in 1..level |-> " " ]

\* '  ' * indent_level
Indent(level) == [ i \in 1..(2 * level) |-> " " ]

\* the first index j >= i with s[j] not in WS, Len(s) + 1 if there is none
RECURSIVE SkipWS(_, _)
SkipWS(s, i) == IF i <= Len(s) /\ s[i] \in WS THEN SkipWS(s, i + 1) ELSE i

\* re.sub(r'>\s*<', '>\n<', s)
RECURSIVE SeparateTags(_, _)
SeparateTags(s, i) ==
    IF i > Len(s) THEN <<>>
    ELSE IF s[i] = ">" /\ SkipWS(s, i + 1) <= Len(s) /\ s[SkipWS(s, i + 1)] = "<"
         THEN <<">", "\n", "<">> \o SeparateTags(s, SkipWS(s, i + 1) + 1)
         ELSE <<s[i]>> \o SeparateTags(s, i + 1)

\* the end of the name [a-zA-Z][a-zA-Z0-9]* that starts at i: the index after its
\* last character, i itself if no name starts at i
RECURSIVE NameEnd(_, _)
NameEnd(s, j) ==
    IF j <= Len(s) /\ s[j] \in Letters \cup Digits THEN NameEnd(s, j + 1) ELSE j

TagNameEnd(s, i) == IF i <= Len(s) /\ s[i] \in Letters THEN NameEnd(s, i + 1) ELSE i
----------------------------------------------------------------------------
(* json.loads and json.dumps, for the JSON texts the model can form: arrays,   *)
(* objects, strings without escapes, integers and the literals.                *)

\* a parsed value: t is "arr", "obj", "str", "num" or "lit"
Value(t, items, text) == [ t |-> t, items |-> items, text |-> text ]

NoValue == Value("none", <<>>, <<>>)

\* the result of a parse: exc is "None" or the class of the exception raised;
\* pos is the index (from 1) after the value, or the one the error is reported at
JOk(val, i) == [ exc |-> "None", msg |-> "", val |-> val, pos |-> i ]
JErr(msg, i) == [ exc |-> "JSONDecodeError", msg |-> msg, val |-> NoValue, pos |-> i ]
JRec(what, i) ==
    [ exc |-> "RecursionError",
      msg |-> "maximum recursion depth exceeded while decoding a JSON " \o what
                  \o " from a unicode string",
      val |-> NoValue, pos |-> i ]

JsonLiterals ==
    << <<"n", "u", "l", "l">>, <<"t", "r", "u", "e">>, <<"f", "a", "l", "s", "e">>,
       <<"N", "a", "N">>, <<"I", "n", "f", "i", "n", "i", "t", "y">>,
       <<"-", "I", "n", "f", "i", "n", "i", "t", "y">> >>

ControlChars == { "\n", "\t", "\r" }

\* the string that opens with the quote at q, scanned up to j
RECURSIVE scanstring(_, _, _)
scanstring(s, q, j) ==
    IF j > Len(s) THEN JErr("Unterminated string starting at", q)
    ELSE IF s[j] = "\"" THEN JOk(Value("str", <<>>, SubSeq(s, q + 1, j - 1)), j + 1)
    ELSE IF s[j] \in ControlChars THEN JErr("Invalid control character at", j)
    ELSE scanstring(s, q, j + 1)

RECURSIVE DigitsEnd(_, _)
DigitsEnd(s, j) == IF j <= Len(s) /\ s[j] \in Digits THEN DigitsEnd(s, j + 1) ELSE j

\* the end of the integer -?(0|[1-9][0-9]*) that starts at i, i if none starts there
NumberEnd(s, i) ==
    LET k == IF i <= Len(s) /\ s[i] = "-" THEN i + 1 ELSE i
    IN  IF k > Len(s) \/ s[k] \notin Digits THEN i
        ELSE IF s[k] = "0" THEN k + 1
        ELSE DigitsEnd(s, k + 1)

\* str(int(text))
IntText(text) == IF text = <<"-", "0">> THEN <<"0">> ELSE text

\* dict[key] = val: an existing key keeps its place
PutPair(pairs, key, val) ==
    IF \E n \in 1..Len(pairs) : pairs[n].k = key
    THEN [ pairs EXCEPT ![CHOOSE n \in 1..Len(pairs) : pairs[n].k = key].v = val ]
    ELSE Append(pairs, [ k |-> key, v |-> val ])

RECURSIVE scan_once(_, _, _)
RECURSIVE parse_array(_, _, _, _)
RECURSIVE parse_object(_, _, _, _)

\* the value that starts at i, inside depth enclosing arrays and objects
scan_once(s, i, depth) ==
    IF i > Len(s) THEN JErr("Expecting value", i)
    ELSE IF s[i] = "\"" THEN scanstring(s, i, i + 1)
    ELSE IF s[i] = "{" THEN
        IF depth >= RecursionLimit THEN JRec("object", i)
        ELSE LET j == SkipWS(s, i + 1)
             IN  IF j <= Len(s) /\ s[j] = "}"
                 THEN JOk(Value("obj", <<>>, <<>>), j + 1)
                 ELSE parse_object(s, j, depth + 1, <<>>)
    ELSE IF s[i] = "[" THEN
        IF depth >= RecursionLimit THEN JRec("array", i)
        ELSE LET j == SkipWS(s, i + 1)
             IN  IF j <= Len(s) /\ s[j] = "]"
                 THEN JOk(Value("arr", <<>>, <<>>), j + 1)
                 ELSE parse_array(s, j, depth + 1, <<>>)
    ELSE IF \E n \in 1..Len(JsonLiterals) : StartsAt(s, i, JsonLiterals[n])
    THEN LET lit == JsonLiterals[CHOOSE n \in 1..Len(JsonLiterals) :
                                     StartsAt(s, i, JsonLiterals[n])]
         IN  JOk(Value("lit", <<>>, lit), i + Len(lit))
    ELSE IF NumberEnd(s, i) > i
    THEN JOk(Value("num", <<>>, IntText(SubSeq(s, i, NumberEnd(s, i) - 1))), NumberEnd(s, i))
    ELSE JErr("Expecting value", i)

\* the items of an array from i on, acc being the items before
parse_array(s, i, depth, acc) ==
    LET r == scan_once(s, i, depth) IN
    IF r.exc # "None" THEN r
    ELSE LET j == SkipWS(s, r.pos) IN
         IF j <= Len(s) /\ s[j] = "]"
         THEN JOk(Value("arr", Append(acc, r.val), <<>>), j + 1)
         ELSE IF j > Len(s) \/ s[j] # "," THEN JErr("Expecting ',' delimiter", j)
         ELSE parse_array(s, SkipWS(s, j + 1), depth, Append(acc, r.val))

\* the pairs of an object from i on, acc being the pairs before
parse_object(s, i, depth, acc) ==
    IF i > Len(s) \/ s[i] # "\""
    THEN JErr("Expecting property name enclosed in double quotes", i)
    ELSE LET key == scanstring(s, i, i + 1) IN
         IF key.exc # "None" THEN key
         ELSE LET j == SkipWS(s, key.pos) IN
              IF j > Len(s) \/ s[j] # ":" THEN JErr("Expecting ':' delimiter", j)
              ELSE LET r == scan_once(s, SkipWS(s, j + 1), depth) IN
                   IF r.exc # "None" THEN r
                   ELSE LET m == SkipWS(s, r.pos)
                            pairs == PutPair(acc, key.val.text, r.val)
                        IN  IF m <= Len(s) /\ s[m] = "}"
                            THEN JOk(Value("obj", pairs, <<>>), m + 1)
                            ELSE IF m > Len(s) \/ s[m] # ","
                                 THEN JErr("Expecting ',' delimiter", m)
                                 ELSE parse_object(s, SkipWS(s, m + 1), depth, pairs)

\* json.loads(s)
loads(s) ==
    LET r == scan_once(s, SkipWS(s, 1), 0) IN
    IF r.exc # "None" THEN r
    ELSE IF SkipWS(s, r.pos) <= Len(s) THEN JErr("Extra data", SkipWS(s, r.pos))
    ELSE r

\* str(e) of the exception of a parse of s: the message, and for a JSONDecodeError
\* the line, the column and the offset of pos; kept as one element of a text
ErrorText(s, r) ==
    IF r.exc # "JSONDecodeError" THEN r.msg
    ELSE LET nl == { n \in 1..(r.pos - 1) : s[n] = "\n" }
             last_nl == IF nl = {} THEN 0 ELSE CHOOSE n \in nl : \A q \in nl : q <= n
         IN  r.msg \o ": line " \o ToString(Cardinality(nl) + 1)
                   \o " column " \o ToString(r.pos - last_nl)
                   \o " (char " \o ToString(r.pos - 1) \o ")"

\* json.dumps(v, indent=2) for pretty, json.dumps(v, separators=(',', ':')) otherwise
RECURSIVE Dump(_, _, _)
RECURSIVE DumpItems(_, _, _, _)

Dump(v, level, pretty) ==
    IF v.t = "str" THEN <<"\"">> \o v.text \o <<"\"">>
    ELSE IF v.t \in { "num", "lit" } THEN v.text
    ELSE LET open == IF v.t = "arr" THEN "[" ELSE "{"
             close == IF v.t = "arr" THEN "]" ELSE "}"
         IN  IF v.items = <<>> THEN <<open, close>>
             ELSE IF pretty
                  THEN <<open>> \o DumpItems(v, 1, level + 1, pretty)
                           \o <<"\n">> \o Indent(level) \o <<close>>
                  ELSE <<open>> \o DumpItems(v, 1, level + 1, pretty) \o <<close>>

\* the items of v from the n-th on, each one on the given level
DumpItems(v, n, level, pretty) ==
    IF n > Len(v.items) THEN <<>>
    ELSE LET lead == (IF n > 1 THEN <<",">> ELSE <<>>)
                        \o (IF pretty THEN <<"\n">> \o Indent(level) ELSE <<>>)
             item == IF v.t = "arr" THEN Dump(v.items[n], level, pretty)
                     ELSE <<"\"">> \o v.items[n].k \o <<"\"">>
                            \o (IF pretty THEN <<":", " ">> ELSE <<":">>)
                            \o Dump(v.items[n].v, level, pretty)
         IN  lead \o item \o DumpItems(v, n + 1, level, pretty)

dumps_indent(v) == Dump(v, 0, TRUE)
dumps_compact(v) == Dump(v, 0, FALSE)
----------------------------------------------------------------------------
(* xml.dom.minidom.parseString and toprettyxml, for the XML texts the model   *)
(* can form: a declaration, elements without attributes, text and comments.   *)

\* the declaration format_xml adds
XmlDeclaration ==
    <<"<", "?", "x", "m", "l", " ", "v", "e", "r", "s", "i", "o", "n", "=", "\"", "1",
      ".", "0", "\"", " ", "e", "n", "c", "o", "d", "i", "n", "g", "=", "\"", "U", "T",
      "F", "-", "8", "\"", "?", ">">>

\* the declaration toprettyxml writes
PrettyDeclaration ==
    <<"<", "?", "x", "m", "l", " ", "v", "e", "r", "s", "i", "o", "n", "=", "\"", "1",
      ".", "0", "\"", " ", "?", ">">>

\* a node of the document: t is "elem", "text" or "comment"
XNode(t, name, data, children) ==
    [ t |-> t, name |-> name, data |-> data, children |-> children ]

XOk(nodes, i) == [ exc |-> "None", nodes |-> nodes, pos |-> i ]
XErr(i) == [ exc |-> "ExpatError", nodes |-> <<>>, pos |-> i ]

\* the index of the "-->" that ends the comment whose text starts at j, 0 if the
\* comment does not end or holds "--"
RECURSIVE CommentEnd(_, _)
CommentEnd(s, j) ==
    IF j + 2 > Len(s) THEN 0
    ELSE IF StartsAt(s, j, <<"-", "-", ">">>) THEN j
    ELSE IF StartsAt(s, j, <<"-", "-">>) THEN 0
    ELSE CommentEnd(s, j + 1)

\* the end of the character data that starts at i
RECURSIVE TextEnd(_, _)
TextEnd(s, j) == IF j <= Len(s) /\ s[j] \notin { "<", "&" } THEN TextEnd(s, j + 1) ELSE j

\* appendChild of character data: it is joined to a text node before it
AddText(nodes, data) ==
    IF nodes # <<>> /\ nodes[Len(nodes)].t = "text"
    THEN [ nodes EXCEPT ![Len(nodes)].data = @ \o data ]
    ELSE Append(nodes, XNode("text", <<>>, data, <<>>))

RECURSIVE parse_element(_, _)
RECURSIVE parse_children(_, _, _)

\* the element whose "<" is at i
parse_element(s, i) ==
    LET e == TagNameEnd(s, i + 1)
        name == SubSeq(s, i + 1, e - 1)
        j == SkipWS(s, e)
    IN  IF e = i + 1 THEN XErr(i)
        ELSE IF StartsAt(s, j, <<"/", ">">>)
        THEN XOk(<<XNode("elem", name, <<>>, <<>>)>>, j + 2)
        ELSE IF j > Len(s) \/ s[j] # ">" THEN XErr(j)
        ELSE LET body == parse_children(s, j + 1, <<>>)
                 c == body.pos + 2 + Len(name)
             IN  IF body.exc # "None" THEN body
                 ELSE IF ~StartsAt(s, body.pos, <<"<", "/">> \o name) THEN XErr(body.pos)
                 ELSE IF SkipWS(s, c) > Len(s) \/ s[SkipWS(s, c)] # ">" THEN XErr(c)
                 ELSE XOk(<<XNode("elem", name, <<>>, body.nodes)>>, SkipWS(s, c) + 1)

\* the children of an element from i on, up to the "</" that ends them
parse_children(s, i, acc) ==
    IF i > Len(s) THEN XErr(i)
    ELSE IF StartsAt(s, i, <<"<", "/">>) THEN XOk(acc, i)
    ELSE IF StartsAt(s, i, <<"<", "!", "-", "-">>)
    THEN LET c == CommentEnd(s, i + 4)
         IN  IF c = 0 THEN XErr(i)
             ELSE parse_children(s, c + 3,
                      Append(acc, XNode("comment", <<>>, SubSeq(s, i + 4, c - 1), <<>>)))
    ELSE IF s[i] = "<"
    THEN LET el == parse_element(s, i)
         IN  IF el.exc # "None" THEN el
             ELSE parse_children(s, el.pos, acc \o el.nodes)
    ELSE IF s[i] = "&" THEN XErr(i)
    ELSE parse_children(s, TextEnd(s, i), AddText(acc, SubSeq(s, i, TextEnd(s, i) - 1)))

\* the comments and the white space from i on, before or after the root element
RECURSIVE parse_misc(_, _, _)
parse_misc(s, i, acc) ==
    IF i <= Len(s) /\ s[i] \in WS THEN parse_misc(s, i + 1, acc)
    ELSE IF StartsAt(s, i, <<"<", "!", "-", "-">>)
    THEN LET c == CommentEnd(s, i + 4)
         IN  IF c = 0 THEN XErr(i)
             ELSE parse_misc(s, c + 3,
                      Append(acc, XNode("comment", <<>>, SubSeq(s, i + 4, c - 1), <<>>)))
    ELSE XOk(acc, i)

\* xml.dom.minidom.parseString(s): the children of the document
parseString(s) ==
    LET start == IF startswith(s, XmlDeclaration) THEN Len(XmlDeclaration) + 1 ELSE 1
        before == parse_misc(s, start, <<>>)
        root == parse_element(s, before.pos)
        after == parse_misc(s, root.pos, before.nodes \o root.nodes)
    IN  IF startswith(s, <<"<", "?">>) /\ start = 1 THEN XErr(1)
        ELSE IF before.exc # "None" THEN before
        ELSE IF before.pos > Len(s) \/ s[before.pos] # "<" THEN XErr(before.pos)
        ELSE IF root.exc # "None" THEN root
        ELSE IF after.exc # "None" THEN after
        ELSE IF after.pos <= Len(s) THEN XErr(after.pos)
        ELSE after

\* the character data as Text.writexml writes it
RECURSIVE EscapeData(_)
EscapeData(data) ==
    IF data = <<>> THEN <<>>
    ELSE (IF Head(data) = ">" THEN <<"&", "g", "t", ";">>
          ELSE IF Head(data) = "\"" THEN <<"&", "q", "u", "o", "t", ";">>
          ELSE <<Head(data)>>) \o EscapeData(Tail(data))

\* node.writexml(writer, indent, "  ", "\n")
RECURSIVE writexml(_, _)
RECURSIVE writexml_all(_, _)

writexml(node, level) ==
    IF node.t = "text" THEN Indent(level) \o EscapeData(node.data) \o <<"\n">>
    ELSE IF node.t = "comment"
    THEN Indent(level) \o <<"<", "!", "-", "-">> \o node.data \o <<"-", "-", ">", "\n">>
    ELSE IF node.children = <<>>
    THEN Indent(level) \o <<"<">> \o node.name \o <<"/", ">", "\n">>
    ELSE IF Len(node.children) = 1 /\ node.children[1].t = "text"
    THEN Indent(level) \o <<"<">> \o node.name \o <<">">>
             \o EscapeData(node.children[1].data)
             \o <<"<", "/">> \o node.name \o <<">", "\n">>
    ELSE Indent(level) \o <<"<">> \o node.name \o <<">", "\n">>
             \o writexml_all(node.children, level + 1)
             \o Indent(level) \o <<"<", "/">> \o node.name \o <<">", "\n">>

writexml_all(nodes, level) ==
    IF nodes = <<>> THEN <<>>
    ELSE writexml(Head(nodes), level) \o writexml_all(Tail(nodes), level)

\* parsed.toprettyxml(indent="  ")
toprettyxml(nodes) == PrettyDeclaration \o <<"\n">> \o writexml_all(nodes, 0)
----------------------------------------------------------------------------
(* Formatter *)

\* the outcome of a call: raised is "None" or the class of the exception that
\* leaves the call, value is what is returned, failed tells that the value is the
\* one of an except branch that reports a format error
Return(value) == [ raised |-> "None", value |-> value, failed |-> FALSE ]
ReturnError(value) == [ raised |-> "None", value |-> value, failed |-> TRUE ]
Raise(exc) == [ raised |-> exc, value |-> <<>>, failed |-> FALSE ]

\* the exceptions "except:" and "except Exception" catch, among those the calls
\* of the model raise
BaseException == { "JSONDecodeError", "RecursionError", "ExpatError" }
Exception == BaseException

JsonErrorMarker ==
    <<"/", "*", " ", "J", "S", "O", "N", " ", "F", "o", "r", "m", "a", "t", " ",
      "E", "r", "r", "o", "r">>
XmlErrorMarker ==
    <<"<", "!", "-", "-", " ", "X", "M", "L", " ", "F", "o", "r", "m", "a", "t", " ",
      "E", "r", "r", "o", "r">>
HtmlErrorMarker ==
    <<"<", "!", "-", "-", " ", "H", "T", "M", "L", " ", "F", "o", "r", "m", "a", "t",
      " ", "E", "r", "r", "o", "r">>

\* l.68-86, content stripped, parsed the outcome of json.loads(content)
IsJsonOf(content, parsed) ==
    IF content = <<>> THEN Return(FALSE)
    ELSE IF \/ startswith(content, <<"{">>) /\ endswith(content, <<"}">>)
            \/ startswith(content, <<"[">>) /\ endswith(content, <<"]">>)
    THEN IF parsed.exc = "None" THEN Return(TRUE)
         ELSE IF parsed.exc \in BaseException
         THEN Return(/\ contains(content, <<"\"">>)
                     /\ \/ contains(content, <<":">>)
                        \/ contains(content, <<"[">>)
                        \/ contains(content, <<"{">>))
         ELSE Raise(parsed.exc)
    ELSE Return(FALSE)

_is_json(content) == IsJsonOf(strip(content), loads(strip(content)))

\* re.match(r'^<[a-zA-Z][a-zA-Z0-9]*[>\\s]', content): the class holds ">", the
\* backslash and the letter s
MatchesOpenTag(content) ==
    /\ startswith(content, <<"<">>)
    /\ \E e \in 3..TagNameEnd(content, 2) :
          e <= Len(content) /\ content[e] \in { ">", "\\", "s" }

\* re.findall(r'<([a-zA-Z][a-zA-Z0-9]*)(?:\s|>)', content) finds something
HasOpenTag(content) ==
    \E i \in 1..Len(content) :
        /\ content[i] = "<"
        /\ TagNameEnd(content, i + 1) > i + 1
        /\ TagNameEnd(content, i + 1) <= Len(content)
        /\ content[TagNameEnd(content, i + 1)] \in WS \cup { ">" }

\* re.findall(r'</([a-zA-Z][a-zA-Z0-9]*)>', content) finds something
HasCloseTag(content) ==
    \E i \in 1..Len(content) :
        /\ StartsAt(content, i, <<"<", "/">>)
        /\ TagNameEnd(content, i + 2) > i + 2
        /\ TagNameEnd(content, i + 2) <= Len(content)
        /\ content[TagNameEnd(content, i + 2)] = ">"

\* l.99-117, content stripped
IsXmlOf(content) ==
    IF content = <<>> THEN Return(FALSE)
    ELSE IF \/ startswith(content, <<"<", "?", "x", "m", "l">>)
            \/ startswith(content, <<"<", "s", "o", "a", "p", ":">>)
            \/ startswith(content, <<"<", "r", "s", "s">>)
            \/ startswith(content, <<"<", "f", "e", "e", "d">>)
            \/ MatchesOpenTag(content)
    THEN Return(HasOpenTag(content) \/ HasCloseTag(content))
    ELSE Return(FALSE)

_is_xml(content) == IsXmlOf(strip(content))

HtmlPatterns ==
    { <<"<", "!", "d", "o", "c", "t", "y", "p", "e", " ", "h", "t", "m", "l">>,
      <<"<", "h", "t", "m", "l">>, <<"<", "h", "e", "a", "d">>,
      <<"<", "b", "o", "d", "y">>, <<"<", "d", "i", "v">>, <<"<", "p", ">">>,
      <<"<", "s", "p", "a", "n">>, <<"<", "h", "1">>, <<"<", "h", "2">>,
      <<"<", "t", "a", "b", "l", "e">>, <<"<", "s", "t", "y", "l", "e">>,
      <<"<", "s", "c", "r", "i", "p", "t">> }

\* l.130-148, content_lower lowered and stripped
IsHtmlOf(content_lower) ==
    IF content_lower = <<>> THEN Return(FALSE)
    ELSE Return(\E p \in HtmlPatterns : contains(content_lower, p))

_is_html(content) == IsHtmlOf(strip(lower(content)))

\* re.sub(r',\s*}', '}', s) with close = "}", re.sub(r',\s*]', ']', s) with "]"
RECURSIVE RemoveTrailingCommas(_, _, _)
RemoveTrailingCommas(s, i, close) ==
    IF i > Len(s) THEN <<>>
    ELSE IF s[i] = "," /\ SkipWS(s, i + 1) <= Len(s) /\ s[SkipWS(s, i + 1)] = close
         THEN <<close>> \o RemoveTrailingCommas(s, SkipWS(s, i + 1) + 1, close)
         ELSE <<s[i]>> \o RemoveTrailingCommas(s, i + 1, close)

\* f"/* JSON Format Error: {str(e)} */\n{content}"
JsonErrorText(message, content) ==
    JsonErrorMarker \o <<":", " ", message, " ", "*", "/", "\n">> \o content

\* l.165-172: the text after the repair, parsed again; message is str(e) of the
\* first failure
FormatJsonRepaired(message, repaired, again) ==
    IF again.exc = "None" THEN Return(dumps_indent(again.val))
    ELSE IF again.exc \in BaseException
    THEN ReturnError(JsonErrorText(message, repaired))
    ELSE Raise(again.exc)

\* re.sub(r',\s*}', '}', content) then re.sub(r',\s*]', ']', content)
Repaired(content) ==
    RemoveTrailingCommas(RemoveTrailingCommas(content, 1, "}"), 1, "]")

\* variant: without "except Exception", only json.JSONDecodeError is caught
FormatJsonParsedNarrow(content, parsed) ==
    IF parsed.exc = "None" THEN Return(dumps_indent(parsed.val))
    ELSE IF parsed.exc = "JSONDecodeError"
    THEN FormatJsonRepaired(ErrorText(content, parsed), Repaired(content),
                            loads(Repaired(content)))
    ELSE Raise(parsed.exc)

format_json_narrow(content) == FormatJsonParsedNarrow(content, loads(content))

\* l.160-174, parsed the outcome of json.loads(content)
FormatJsonParsed(content, parsed) ==
    IF parsed.exc = "None" THEN Return(dumps_indent(parsed.val))
    ELSE IF parsed.exc = "JSONDecodeError"
    THEN FormatJsonRepaired(ErrorText(content, parsed), Repaired(content),
                            loads(Repaired(content)))
    ELSE IF parsed.exc \in Exception
    THEN ReturnError(JsonErrorText(ErrorText(content, parsed), content))
    ELSE Raise(parsed.exc)

format_json(content) == FormatJsonParsed(content, loads(content))

\* the lines of _simple_xml_format from the n-th on, at the given indent_level
RECURSIVE SimpleXmlLines(_, _, _)
SimpleXmlLines(lines, n, indent_level) ==
    IF n > Len(lines) THEN <<>>
    ELSE LET line == strip(lines[n])
             closed == IF indent_level > 0 THEN indent_level - 1 ELSE 0
         IN  IF line = <<>> THEN SimpleXmlLines(lines, n + 1, indent_level)
             ELSE IF startswith(line, <<"<", "?", "x", "m", "l">>)
             THEN <<line>> \o SimpleXmlLines(lines, n + 1, indent_level)
             ELSE IF startswith(line, <<"<", "/">>)
             THEN <<Indent(closed) \o line>> \o SimpleXmlLines(lines, n + 1, closed)
             ELSE IF endswith(line, <<"/", ">">>)
             THEN <<Indent(indent_level) \o line>>
                      \o SimpleXmlLines(lines, n + 1, indent_level)
             ELSE IF startswith(line, <<"<">>)
             THEN <<Indent(indent_level) \o line>>
                      \o SimpleXmlLines(lines, n + 1,
                             IF ~contains(line, <<"<", "/">>)
                             THEN indent_level + 1 ELSE indent_level)
             ELSE <<Indent(indent_level) \o line>>
                      \o SimpleXmlLines(lines, n + 1, indent_level)

_simple_xml_format(content) ==
    Return(join(SimpleXmlLines(split(SeparateTags(content, 1)), 1, 0)))

\* [line for line in formatted.split('\n') if line.strip()]
NonBlankLines(lines) == SelectSeq(lines, LAMBDA line : strip(line) # <<>>)

\* f"<!-- XML Format Error: {str(e)} -->\n{content}"
XmlErrorText(message, content) ==
    XmlErrorMarker \o <<":", " ", message, " ", "-", "-", ">", "\n">> \o content

\* l.190-191
AddDeclaration(content) ==
    IF startswith(content, <<"<", "?", "x", "m", "l">>) THEN content
    ELSE XmlDeclaration \o <<"\n">> \o content

\* l.194-206, content with its declaration, parsed the outcome of parseString
\* and simple the outcome of the fallback
FormatXmlParsed(content, parsed, simple) ==
    IF parsed.exc = "None"
    THEN Return(join(NonBlankLines(split(toprettyxml(parsed.nodes)))))
    ELSE IF parsed.exc \in Exception
    THEN IF simple.raised = "None" THEN simple
         ELSE IF simple.raised \in BaseException
         THEN ReturnError(XmlErrorText("not well-formed", content))
         ELSE simple
    ELSE Raise(parsed.exc)

FormatXmlDeclared(content) ==
    FormatXmlParsed(content, parseString(content), _simple_xml_format(content))

format_xml(content) == FormatXmlDeclared(AddDeclaration(strip(content)))

\* HTML5 void elements
void_elements ==
    { <<"a", "r", "e", "a">>, <<"b", "a", "s", "e">>, <<"b", "r">>, <<"c", "o", "l">>,
      <<"e", "m", "b", "e", "d">>, <<"h", "r">>, <<"i", "m", "g">>,
      <<"i", "n", "p", "u", "t">>, <<"l", "i", "n", "k">>, <<"m", "e", "t", "a">>,
      <<"p", "a", "r", "a", "m">>, <<"s", "o", "u", "r", "c", "e">>,
      <<"t", "r", "a", "c", "k">>, <<"w", "b", "r">> }

\* the indent level after an opening tag line of _simple_html_format
HtmlLevelAfter(line, indent_level) ==
    LET e == TagNameEnd(line, 2)
        tag_name == SubSeq(line, 2, e - 1)
    IN  IF /\ e > 2
           /\ lower(tag_name) \notin void_elements
           /\ ~endswith(line, <<"/", ">">>)
           /\ ~contains(line, <<"<", "/">> \o tag_name \o <<">">>)
        THEN indent_level + 1
        ELSE indent_level

\* the lines of _simple_html_format from the n-th on, at the given indent_level
RECURSIVE SimpleHtmlLines(_, _, _)
SimpleHtmlLines(lines, n, indent_level) ==
    IF n > Len(lines) THEN <<>>
    ELSE LET line == strip(lines[n])
             closed == IF indent_level > 0 THEN indent_level - 1 ELSE 0
         IN  IF line = <<>> THEN SimpleHtmlLines(lines, n + 1, indent_level)
             ELSE IF startswith(lower(line), <<"<", "!", "d", "o", "c", "t", "y", "p", "e">>)
             THEN <<line>> \o SimpleHtmlLines(lines, n + 1, indent_level)
             ELSE IF startswith(line, <<"<", "!", "-", "-">>)
             THEN <<Indent(indent_level) \o line>>
                      \o SimpleHtmlLines(lines, n + 1, indent_level)
             ELSE IF startswith(line, <<"<", "/">>)
             THEN <<Indent(closed) \o line>> \o SimpleHtmlLines(lines, n + 1, closed)
             ELSE IF \/ \E tag \in void_elements :
                           endswith(rstrip(line), <<"<", "/">> \o tag \o <<">">>)
                     \/ endswith(line, <<"/", ">">>)
             THEN <<Indent(indent_level) \o line>>
                      \o SimpleHtmlLines(lines, n + 1, indent_level)
             ELSE IF startswith(line, <<"<">>)
             THEN <<Indent(indent_level) \o line>>
                      \o SimpleHtmlLines(lines, n + 1, HtmlLevelAfter(line, indent_level))
             ELSE <<Indent(indent_level) \o line>>
                      \o SimpleHtmlLines(lines, n + 1, indent_level)

_simple_html_format(content) ==
    Return(join(SimpleHtmlLines(split(SeparateTags(content, 1)), 1, 0)))

\* f"<!-- HTML Format Error: {str(e)} -->\n{content}"
HtmlErrorText(message, content) ==
    HtmlErrorMarker \o <<":", " ", message, " ", "-", "-", ">", "\n">> \o content

format_html(content) ==
    LET simple == _simple_html_format(content)
    IN  IF simple.raised = "None" THEN simple
        ELSE IF simple.raised \in Exception
        THEN ReturnError(HtmlErrorText(simple.raised, content))
        ELSE simple

\* the part of a type hint that selects a formatter
HintJson == <<"j", "s", "o", "n">>
HintXml == <<"x", "m", "l">>
HintHtml == <<"h", "t", "m", "l">>

\* l.48-55 with the outcomes of the three checks
Detected(content, is_json, is_xml, is_html) ==
    IF is_json.raised # "None" THEN Raise(is_json.raised)
    ELSE IF is_json.value THEN format_json(content)
    ELSE IF is_xml.raised # "None" THEN Raise(is_xml.raised)
    ELSE IF is_xml.value THEN format_xml(content)
    ELSE IF is_html.raised # "None" THEN Raise(is_html.raised)
    ELSE IF is_html.value THEN format_html(content)
    ELSE Return(content)

\* the second part of format_content: the formatter is chosen by the checks
AutoFormat(content) ==
    Detected(content, _is_json(content), _is_xml(content), _is_html(content))

\* l.36, 40, 44: a result that does not start with the marker is returned, any
\* other result is dropped and the checks choose the formatter
KeepOrDetect(result, marker, content) ==
    IF result.raised # "None" THEN result
    ELSE IF ~startswith(result.value, marker) THEN result
    ELSE AutoFormat(content)

\* l.33-55, content stripped; content_type is <<>> for None and for the empty
\* string
FormatByHint(content, content_type) ==
    IF content_type = <<>> THEN AutoFormat(content)
    ELSE IF contains(content_type, HintJson)
    THEN KeepOrDetect(format_json(content), JsonErrorMarker, content)
    ELSE IF contains(content_type, HintXml)
    THEN KeepOrDetect(format_xml(content), XmlErrorMarker, content)
    ELSE IF contains(content_type, HintHtml)
    THEN KeepOrDetect(format_html(content), HtmlErrorMarker, content)
    ELSE AutoFormat(content)

format_content(content, content_type) ==
    IF content = <<>> \/ strip(content) = <<>> THEN Return(content)
    ELSE FormatByHint(strip(content), content_type)

\* re.sub(r'<!--.*?-->', '', s, flags=re.DOTALL)
RECURSIVE FirstAt(_, _, _)
FirstAt(s, j, p) ==
    IF j + Len(p) - 1 > Len(s) THEN 0
    ELSE IF StartsAt(s, j, p) THEN j
    ELSE FirstAt(s, j + 1, p)

RECURSIVE RemoveComments(_, _)
RemoveComments(s, i) ==
    IF i > Len(s) THEN <<>>
    ELSE IF StartsAt(s, i, <<"<", "!", "-", "-">>) /\ FirstAt(s, i + 4, <<"-", "-", ">">>) # 0
         THEN RemoveComments(s, FirstAt(s, i + 4, <<"-", "-", ">">>) + 3)
         ELSE <<s[i]>> \o RemoveComments(s, i + 1)

\* re.sub(r'\s+', ' ', s)
RECURSIVE CompressSpace(_, _)
CompressSpace(s, i) ==
    IF i > Len(s) THEN <<>>
    ELSE IF s[i] \in WS THEN <<" ">> \o CompressSpace(s, SkipWS(s, i))
    ELSE <<s[i]>> \o CompressSpace(s, i + 1)

\* re.sub(r'>\s+<', '><', s)
RECURSIVE JoinTags(_, _)
JoinTags(s, i) ==
    IF i > Len(s) THEN <<>>
    ELSE IF /\ s[i] = ">" /\ SkipWS(s, i + 1) > i + 1
            /\ SkipWS(s, i + 1) <= Len(s) /\ s[SkipWS(s, i + 1)] = "<"
         THEN <<">", "<">> \o JoinTags(s, SkipWS(s, i + 1) + 1)
         ELSE <<s[i]>> \o JoinTags(s, i + 1)

\* the XML/HTML branch of minify_content
StripMarkup(content) ==
    strip(JoinTags(CompressSpace(RemoveComments(content, 1), 1), 1))

\* l.349-356 with the outcomes of the two checks
MinifyMarkup(content, is_xml, is_html) ==
    IF is_xml.raised # "None" THEN Raise(is_xml.raised)
    ELSE IF is_xml.value THEN Return(StripMarkup(content))
    ELSE IF is_html.raised # "None" THEN Raise(is_html.raised)
    ELSE IF is_html.value THEN Return(StripMarkup(content))
    ELSE Return(content)

\* l.341-356 with the outcome of _is_json and of json.loads
MinifyOf(content, content_type, is_json, parsed) ==
    IF is_json.raised # "None" THEN Raise(is_json.raised)
    ELSE IF is_json.value \/ (content_type # <<>> /\ contains(content_type, HintJson))
    THEN IF parsed.exc = "None" THEN Return(dumps_compact(parsed.val))
         ELSE IF parsed.exc \in BaseException THEN Return(content)
         ELSE Raise(parsed.exc)
    ELSE MinifyMarkup(content, _is_xml(content), _is_html(content))

minify_content(content, content_type) ==
    IF content = <<>> THEN Return(content)
    ELSE MinifyOf(content, content_type, _is_json(content), loads(content))

----------------------------------------------------------------------------
(* The callers of the Formatter: the texts and the type hints of the calls *)

\* the characters of the texts that are enumerated
Alphabet == { "[", "]", ",", "1", "\"", " " }

\* all the texts over the alphabet of at most MaxLen characters
Texts == UNION { [ 1..n -> Alphabet ] : n \in 0..MaxLen }

\* arrays nested one level deeper than the parser recurses
DeepText == [ i \in 1..(RecursionLimit + 1) |-> "[" ] \o <<"]">>

\* well-formed JSON: empty arrays nested one level deeper than the parser recurses
DeepJson ==
    [ i \in 1..(2 * (RecursionLimit + 1)) |-> IF i <= RecursionLimit + 1 THEN "[" ELSE "]" ]

\* <a><b>x</b></a>
AbxText ==
    <<"<", "a", ">", "<", "b", ">", "x", "<", "/", "b", ">", "<", "/", "a", ">">>

\* [",]",]: a trailing comma, and a string that holds a comma before a bracket
CommaInString == <<"[", "\"", ",", "]", "\"", ",", "]">>

\* texts with objects, markup, comments, line breaks and the error markers
Samples ==
    { \* {"a":1,}
      <<"{", "\"", "a", "\"", ":", "1", ",", "}">>,
      \* {"a":[1,{}],"b":"x"}
      <<"{", "\"", "a", "\"", ":", "[", "1", ",", "{", "}", "]", ",", "\"",
      "b", "\"", ":", "\"", "x", "\"", "}">>,
      \* -0
      <<"-", "0">>,
      \* /* JSON Format Error
      <<"/", "*", " ", "J", "S", "O", "N", " ", "F", "o", "r", "m", "a", "t",
      " ", "E", "r", "r", "o", "r">>,
      \* {<p>  "}
      <<"{", "<", "p", ">", " ", " ", "\"", "}">>,
      \* <a><b/>t</a>
      <<"<", "a", ">", "<", "b", "/", ">", "t", "<", "/", "a", ">">>,
      \* <a><b>
      <<"<", "a", ">", "<", "b", ">">>,
      \* <!-- XML Format Error --><a/>
      <<"<", "!", "-", "-", " ", "X", "M", "L", " ", "F", "o", "r", "m", "a",
      "t", " ", "E", "r", "r", "o", "r", " ", "-", "-", ">", "<", "a", "/",
      ">">>,
      \* <!-- HTML Format Error --><a>x</a>
      <<"<", "!", "-", "-", " ", "H", "T", "M", "L", " ", "F", "o", "r", "m",
      "a", "t", " ", "E", "r", "r", "o", "r", " ", "-", "-", ">", "<", "a",
      ">", "x", "<", "/", "a", ">">>,
      \* <p>  x </p> <!-- c -->
      <<"<", "p", ">", " ", " ", "x", " ", "<", "/", "p", ">", " ", "<", "!",
      "-", "-", " ", "c", " ", "-", "-", ">">>,
      \* a\n b
      <<"a", "\n", " ", "b">>,
      \* <div><br><p>x</p></div>
      <<"<", "d", "i", "v", ">", "<", "b", "r", ">", "<", "p", ">", "x", "<",
      "/", "p", ">", "<", "/", "d", "i", "v", ">">>,
      AbxText, CommaInString, DeepText, DeepJson }

Contents == Texts \cup Samples

\* the type hints: none, and MIME types in lower and in mixed case
Hints ==
    { <<>>,
      \* application/json
      <<"a", "p", "p", "l", "i", "c", "a", "t", "i", "o", "n", "/", "j", "s",
      "o", "n">>,
      \* Application/JSON
      <<"A", "p", "p", "l", "i", "c", "a", "t", "i", "o", "n", "/", "J", "S",
      "O", "N">>,
      \* text/html
      <<"t", "e", "x", "t", "/", "h", "t", "m", "l">>,
      \* TEXT/HTML
      <<"T", "E", "X", "T", "/", "H", "T", "M", "L">>,
      \* text/xml
      <<"t", "e", "x", "t", "/", "x", "m", "l">> }

\* the lines of the texts given to the manual indenters: an opening tag, a closing
\* tag, a self-closing tag, a void element, an element on one line, a comment, a
\* doctype and a declaration
OpenLine == <<"<", "a", ">">>
CloseLine == <<"<", "/", "a", ">">>
SelfClosingLine == <<"<", "b", "/", ">">>
VoidLine == <<"<", "b", "r", ">">>
InlineLine == <<"<", "p", ">", "x", "<", "/", "p", ">">>
CommentLine == <<"<", "!", "-", "-", " ", "c", " ", "-", "-", ">">>
DoctypeLine == <<"<", "!", "D", "O", "C", "T", "Y", "P", "E", " ", "a", ">">>
DeclarationLine == <<"<", "?", "x", "m", "l", " ", "v", "e", "r", "s", "i", "o", "n", "=", "\"", "1", ".", "0", "\"", "?", ">">>

TagLines ==
    { OpenLine, CloseLine, SelfClosingLine, VoidLine, InlineLine, CommentLine,
      DoctypeLine, DeclarationLine }

\* the texts of at most MaxLines such lines
LineTexts == { join(ls) : ls \in UNION { [ 1..n -> TagLines ] : n \in 1..MaxLines } }

\* outcome before any call
NoCall == [ op |-> "none", raised |-> "None", value |-> <<>>, failed |-> FALSE ]

Called(op, r) ==
    outcome' = [ op |-> op, raised |-> r.raised, value |-> r.value, failed |-> r.failed ]


----------------------------------------------------------------------------
(* Response records: Python dicts, a field may be missing *)

\* dict.get(field, default)
Get(d, field, default) == IF field \in DOMAIN d THEN d[field] ELSE default

\* RequestHandler.send_request, the record built from a received response
NormalResponse(method, url, status, ctype, body) ==
    [ status_code |-> status, headers |-> ("Content-Type" :> ctype), body |-> body,
      response_time |-> 12, size |-> Len(body), url |-> url,
      method |-> method, reason |-> IF status = 200 THEN "OK" ELSE "" ]

\* RequestHandler.send_request, the record built for a RequestException
ErrorResponse(msg) ==
    [ error |-> msg, status_code |-> 0, response_time |-> 0,
      body |-> "Request Error: " \o msg ]

----------------------------------------------------------------------------
(* HistoryManager *)

\* f"{method}_{url}"
RequestKey(method, url) == method \o "_" \o url

Keys(data) == [ i \in 1..Len(data) |-> data[i].key ]

HasKey(data, key) == \E i \in 1..Len(data) : data[i].key = key

IndexOf(data, key) == CHOOSE i \in 1..Len(data) : data[i].key = key

\* the glyph chosen from the status code
StatusEmoji(status_code) ==
    IF 200 <= status_code /\ status_code < 300 THEN "success"
    ELSE IF 300 <= status_code /\ status_code < 400 THEN "redirect"
    ELSE "other"

\* the markup of the subtitle label
SubtitleMarkup(response) ==
    [ emoji  |-> StatusEmoji(Get(response, "status_code", 0)),
      status |-> Get(response, "status_code", 0),
      time   |-> Get(response, "response_time", 0) ]

\* Gtk.ListBoxRow(): an object distinct from every row that is alive
NewRow(hm) ==
    LET alive == Range(hm.list) \cup { hm.data[i].row : i \in 1..Len(hm.data) }
    IN  CHOOSE r \in 1..(Cardinality(alive) + 1) :
            r \notin alive /\ \A q \in 1..(r - 1) : q \in alive

\* variant: the entry is deleted from history_data but its row stays in the list
remove_history_item_norow(hm, request_key) ==
    IF HasKey(hm.data, request_key)
    THEN LET i == IndexOf(hm.data, request_key)
         IN  [ data |-> SubSeq(hm.data, 1, i - 1) \o SubSeq(hm.data, i + 1, Len(hm.data)),
               list |-> hm.list ]
    ELSE hm

remove_history_item(hm, request_key) ==
    IF HasKey(hm.data, request_key)
    THEN LET i == IndexOf(hm.data, request_key)
         IN  [ data |-> SubSeq(hm.data, 1, i - 1) \o SubSeq(hm.data, i + 1, Len(hm.data)),
               list |-> Without(hm.list, hm.data[i].row) ]
    ELSE hm

\* variant: the limit is checked but nothing is removed
_remove_oldest_item_keeps(hm) == hm

\* variant: list(keys)[-1], the entry created last is removed
_remove_oldest_item_newest(hm) ==
    IF hm.data = <<>> THEN hm
    ELSE remove_history_item(hm, hm.data[Len(hm.data)].key)

_remove_oldest_item(hm) ==
    IF hm.data = <<>> THEN hm
    ELSE remove_history_item(hm, Keys(hm.data)[1])

\* history_data[request_key] = {...}: a new key goes last, an existing key keeps its place
DictSet(data, entry) ==
    IF HasKey(data, entry.key)
    THEN [ data EXCEPT ![IndexOf(data, entry.key)] = entry ]
    ELSE Append(data, entry)

\* the entry _create_history_item stores
NewEntry(request_key, method, url, response, request_body, headers, row) ==
    [ key |-> request_key, method |-> method, url |-> url,
      response |-> response, body |-> request_body,
      headers |-> headers, row |-> row,
      title_label |-> <<method, url>>,
      subtitle_label |-> SubtitleMarkup(response) ]

\* variant: history_list.append(row), the new row goes to the bottom
_create_history_item_append(hm, request_key, method, url, response, request_body, headers) ==
    LET row == NewRow(hm)
        added == [ data |-> DictSet(hm.data, NewEntry(request_key, method, url, response,
                                                      request_body, headers, row)),
                   list |-> Append(hm.list, row) ]
    IN  IF Len(added.data) > max_items THEN _remove_oldest_item(added) ELSE added

\* variant: len(self.history_data) >= self.max_items
_create_history_item_ge(hm, request_key, method, url, response, request_body, headers) ==
    LET row == NewRow(hm)
        added == [ data |-> DictSet(hm.data, NewEntry(request_key, method, url, response,
                                                      request_body, headers, row)),
                   list |-> <<row>> \o hm.list ]
    IN  IF Len(added.data) >= max_items THEN _remove_oldest_item(added) ELSE added

_create_history_item(hm, request_key, method, url, response, request_body, headers) ==
    LET row == NewRow(hm)
        entry == NewEntry(request_key, method, url, response, request_body, headers, row)
        added == [ data |-> DictSet(hm.data, entry),
                   list |-> <<row>> \o hm.list ]
    IN  IF Len(added.data) > max_items THEN _remove_oldest_item(added) ELSE added

\* variant: the row is put on top without being taken out of the list first
_update_history_item_prepend(hm, request_key, response) ==
    IF ~HasKey(hm.data, request_key) THEN hm
    ELSE LET i == IndexOf(hm.data, request_key)
             row == hm.data[i].row
         IN  [ data |-> [ hm.data EXCEPT ![i].response = response,
                                         ![i].subtitle_label = SubtitleMarkup(response) ],
               list |-> <<row>> \o hm.list ]

\* variant: the labels are refreshed but the row stays where it is
_update_history_item_inplace(hm, request_key, response) ==
    IF ~HasKey(hm.data, request_key) THEN hm
    ELSE LET i == IndexOf(hm.data, request_key)
         IN  [ data |-> [ hm.data EXCEPT ![i].response = response,
                                         ![i].subtitle_label = SubtitleMarkup(response) ],
               list |-> hm.list ]

\* variant: the response is stored and the row moved, the subtitle is not refreshed
_update_history_item_stale(hm, request_key, response) ==
    IF ~HasKey(hm.data, request_key) THEN hm
    ELSE LET i == IndexOf(hm.data, request_key)
             row == hm.data[i].row
         IN  [ data |-> [ hm.data EXCEPT ![i].response = response ],
               list |-> <<row>> \o Without(hm.list, row) ]

_update_history_item(hm, request_key, response) ==
    IF ~HasKey(hm.data, request_key) THEN hm
    ELSE LET i == IndexOf(hm.data, request_key)
             row == hm.data[i].row
         IN  [ data |-> [ hm.data EXCEPT ![i].response = response,
                                         ![i].subtitle_label = SubtitleMarkup(response) ],
               list |-> <<row>> \o Without(hm.list, row) ]

\* variant: an existing entry is replaced by a new one made from the arguments
add_to_history_replace(hm, method, url, response, request_body, headers) ==
    IF url = "" THEN hm
    ELSE _create_history_item(remove_history_item(hm, RequestKey(method, url)),
                              RequestKey(method, url), method, url, response,
                              request_body, headers)

\* variant: without the check "if not url: return"
add_to_history_nocheck(hm, method, url, response, request_body, headers) ==
    LET request_key == RequestKey(method, url)
    IN  IF HasKey(hm.data, request_key)
        THEN _update_history_item(hm, request_key, response)
        ELSE _create_history_item(hm, request_key, method, url, response,
                                  request_body, headers)

add_to_history(hm, method, url, response, request_body, headers) ==
    IF url = "" THEN hm
    ELSE LET request_key == RequestKey(method, url)
         IN  IF HasKey(hm.data, request_key)
             THEN _update_history_item(hm, request_key, response)
             ELSE _create_history_item(hm, request_key, method, url, response,
                                       request_body, headers)

\* for request_key in list(self.history_data.keys()): self.remove_history_item(request_key)
RECURSIVE RemoveAll(_, _)
RemoveAll(hm, keys) ==
    IF keys = <<>> THEN hm
    ELSE RemoveAll(remove_history_item(hm, Head(keys)), Tail(keys))

\* variant: history_data.clear(), the rows stay in the list
clear_history_dataonly(hm) == [ data |-> <<>>, list |-> hm.list ]

clear_history(hm) == RemoveAll(hm, Keys(hm.data))

\* the exception of history_data[request_key] and of del history_data[request_key]
KeyError(data, request_key) == IF HasKey(data, request_key) THEN "None" ELSE "KeyError"

\* the exception of list(history_data.keys())[0]
IndexError(data) == IF data # <<>> THEN "None" ELSE "IndexError"

\* the exception that leaves remove_history_item: the entry is looked up and
\* deleted under "if request_key in self.history_data"
remove_history_item_raised(hm, request_key) ==
    IF HasKey(hm.data, request_key) THEN KeyError(hm.data, request_key) ELSE "None"

\* the exception that leaves _remove_oldest_item
_remove_oldest_item_raised(hm) ==
    IF hm.data = <<>> THEN "None"
    ELSE IF IndexError(hm.data) # "None" THEN IndexError(hm.data)
    ELSE remove_history_item_raised(hm, Keys(hm.data)[1])

\* the exception that leaves add_to_history: an update looks the entry up under
\* "if request_key not in self.history_data: return", an insert stores the entry
\* and calls _remove_oldest_item when more than max_items are stored
add_to_history_raised(hm, method, url, response) ==
    IF url = "" THEN "None"
    ELSE IF HasKey(hm.data, RequestKey(method, url))
    THEN KeyError(hm.data, RequestKey(method, url))
    ELSE IF Len(hm.data) + 1 > max_items THEN _remove_oldest_item_raised(hm)
    ELSE "None"

\* the exception that leaves clear_history: the first one of its calls of
\* remove_history_item
RECURSIVE RemoveAllRaised(_, _)
RemoveAllRaised(hm, keys) ==
    IF keys = <<>> THEN "None"
    ELSE IF remove_history_item_raised(hm, Head(keys)) # "None"
    THEN remove_history_item_raised(hm, Head(keys))
    ELSE RemoveAllRaised(remove_history_item(hm, Head(keys)), Tail(keys))

clear_history_raised(hm) == RemoveAllRaised(hm, Keys(hm.data))

get_history_data(data, request_key) ==
    IF HasKey(data, request_key) THEN data[IndexOf(data, request_key)] ELSE "None"

get_request_key_from_row(data, row) ==
    IF \E i \in 1..Len(data) : data[i].row = row
    THEN data[CHOOSE i \in 1..Len(data) :
                 data[i].row = row /\ \A j \in 1..(i - 1) : data[j].row # row].key
    ELSE "None"

\* the ordered view: the fingerprints of the rows of the list, top to bottom
OrderedView(data, list) ==
    [ i \in 1..Len(list) |-> get_request_key_from_row(data, list[i]) ]

HM == [ data |-> history_data, list |-> history_list ]

----------------------------------------------------------------------------
(* The callers of the HistoryManager: the calls and their arguments *)

\* the entries of method_combo (window.py, setup of the request panel)
Methods == <<"GET", "POST">>

\* the i-th fingerprint the environment introduces
FreshMethod(i) == Methods[((i - 1) % Len(Methods)) + 1]
FreshUrl(i) == "http://h/" \o ToString((i + 1) \div Len(Methods))
FreshKey(i) == RequestKey(FreshMethod(i), FreshUrl(i))

DefaultBody == ""
DefaultHeaders == <<>>
DefaultResponse == NormalResponse("GET", "http://h/", 200, "application/json", "{}")

\* the status codes of the responses recorded first for a fingerprint
FreshStatuses == <<200, 299, 300, 399, 400, 199>>
FreshResponse(i) ==
    NormalResponse("GET", "http://h/", FreshStatuses[((i - 1) % Len(FreshStatuses)) + 1],
                   "application/json", "{}")

\* the responses of a re-record: a redirect, the error variant, a record without fields
Responses ==
    { NormalResponse("GET", "http://h/", 301, "text/html", ""),
      ErrorResponse("timeout"),
      <<>> }

\* the fingerprints in s that are still stored
Stored(s, data) == SelectSeq(s, LAMBDA k : HasKey(data, k))

\* the request body and headers of a re-record: those of the first record, or others
ReSends ==
    { [ body |-> DefaultBody, headers |-> DefaultHeaders ],
      [ body |-> "{\"a\": 1}", headers |-> ("Accept" :> "*/*") ] }

\* what the observers note of a call
\* add_to_history(method, url, response, request_body, headers)
ObserveSent(op, method, url, response, request_body, headers, after) ==
    /\ last' = [ op |-> op, key |-> RequestKey(method, url), url |-> url,
                 response |-> response, body |-> request_body, headers |-> headers,
                 present |-> HasKey(history_data, RequestKey(method, url)),
                 n |-> Len(history_data) ]
    /\ touched' = IF op = "add" /\ url # ""
                  THEN Stored(<<RequestKey(method, url)>>
                                  \o Without(touched, RequestKey(method, url)), after.data)
                  ELSE Stored(touched, after.data)

\* the same for a call with the default request body and headers
Observe(op, method, url, response, after) ==
    ObserveSent(op, method, url, response, DefaultBody, DefaultHeaders, after)

Init ==
    /\ history_data = <<>>
    /\ history_list = <<>>
    /\ last = [ op |-> "init" ]
    /\ touched = <<>>
    /\ log = [ pure |-> TRUE, keys |-> <<>> ]
    /\ used = 0
    /\ extra = 0
    /\ calls = <<>>
    /\ user = 0
    /\ method_combo = Methods[1]
    /\ url_entry = ""
    /\ body_text = ""
    /\ send_btn = TRUE
    /\ progress_bar = FALSE
    /\ threads = <<>>
    /\ pending = <<>>
    /\ running = {}
    /\ delivered = <<>>
    /\ arg_content = <<>>
    /\ arg_content_type = <<>>
    /\ outcome = NoCall

\* add_to_history with a fingerprint that was never recorded before
FirstRecord ==
    /\ used < NKeys
    /\ LET i == used + 1
           after == add_to_history(HM, FreshMethod(i), FreshUrl(i), FreshResponse(i),
                                   DefaultBody, DefaultHeaders)
       IN  /\ history_data' = after.data
           /\ history_list' = after.list
           /\ Observe("add", FreshMethod(i), FreshUrl(i), FreshResponse(i), after)
           /\ log' = [ log EXCEPT !.keys = IF log.pure THEN Append(@, FreshKey(i)) ELSE @ ]
    /\ used' = used + 1
    /\ UNCHANGED <<extra, calls, user, winVars, fmtVars>>

Tainted == [ pure |-> FALSE, keys |-> <<>> ]

\* add_to_history with a fingerprint that was recorded before (stored or not any more)
ReRecord ==
    /\ extra < MaxExtra
    /\ \E i \in 1..HotKeys, response \in Responses, sent \in ReSends :
          /\ i <= used
          /\ LET after == add_to_history(HM, FreshMethod(i), FreshUrl(i), response,
                                         sent.body, sent.headers)
             IN  /\ history_data' = after.data
                 /\ history_list' = after.list
                 /\ ObserveSent("add", FreshMethod(i), FreshUrl(i), response,
                                sent.body, sent.headers, after)
    /\ log' = Tainted
    /\ extra' = extra + 1
    /\ UNCHANGED <<used, calls, user, winVars, fmtVars>>

\* add_to_history with an empty url
RecordEmptyUrl ==
    /\ extra < MaxExtra
    /\ \E i \in 1..Len(Methods), response \in Responses \cup {DefaultResponse} :
          LET after == add_to_history(HM, Methods[i], "", response,
                                      DefaultBody, DefaultHeaders)
          IN  /\ history_data' = after.data
              /\ history_list' = after.list
              /\ Observe("add", Methods[i], "", response, after)
    /\ log' = Tainted
    /\ extra' = extra + 1
    /\ UNCHANGED <<used, calls, user, winVars, fmtVars>>

RemoveItem ==
    /\ extra < MaxExtra
    /\ \E i \in 1..HotKeys :
          LET after == remove_history_item(HM, FreshKey(i))
          IN  /\ history_data' = after.data
              /\ history_list' = after.list
              /\ Observe("remove", FreshMethod(i), FreshUrl(i), "None", after)
    /\ log' = Tainted
    /\ extra' = extra + 1
    /\ UNCHANGED <<used, calls, user, winVars, fmtVars>>

ClearHistory ==
    /\ extra < MaxExtra
    /\ LET after == clear_history(HM)
       IN  /\ history_data' = after.data
           /\ history_list' = after.list
           /\ Observe("clear", "", "", "None", after)
    /\ log' = Tainted
    /\ extra' = extra + 1
    /\ UNCHANGED <<used, calls, user, winVars, fmtVars>>

Next == FirstRecord \/ ReRecord \/ RecordEmptyUrl \/ RemoveItem \/ ClearHistory

Spec == Init /\ [][Next]_vars

----------------------------------------------------------------------------
(* Properties of the history *)

KeySet(data) == Range(Keys(data))

View == OrderedView(history_data, history_list)

\* the call that led to this state recorded a fingerprint that was not stored
InsertedNew == last.op = "add" /\ last.url # "" /\ ~last.present

\* the call that led to this state recorded a fingerprint that was stored
UpdatedExisting == last.op = "add" /\ last.url # "" /\ last.present

\* C1: in every reachable state the history holds at most max_items entries.
C1_AtMostMaxItems == Len(history_data) <= max_items

\* an insert into a full history has happened and the history is still full
C1_Witness == InsertedNew /\ last.n = max_items /\ Len(history_data) = max_items

\* the step is an add_to_history of a new fingerprint into a full history
OverflowStep ==
    /\ last'.op = "add" /\ last'.url # ""
    /\ ~HasKey(history_data, last'.key)
    /\ Len(history_data) = max_items

Evicted == KeySet(history_data) \ KeySet(history_data')

\* C2 as claimed: an insert into a full history evicts the entry at the highest
\* rank of the ordered view (the least recently inserted or updated one).
C2_EvictsHighestRank ==
    [][OverflowStep => Evicted = { View[max_items] }]_vars

\* C2 as amended: an insert into a full history evicts exactly the entry that was
\* created first among the stored ones (the first key of history_data), whether or
\* not that entry was updated since; that is the entry at the highest rank when the
\* rows are in reverse creation order (no stored entry was updated).
C2_EvictsFirstCreated ==
    [][OverflowStep =>
          /\ Evicted = { Keys(history_data)[1] }
          /\ View = Reverse(Keys(history_data)) => Evicted = { View[max_items] }
      ]_vars

\* an overflow has happened in a history whose rows are not in creation order
C2_Witness ==
    /\ InsertedNew /\ last.n = max_items
    /\ View # Reverse(Keys(history_data))

\* C3: after recording a stored fingerprint again there is exactly one entry and one
\* row for it, the entry holds the response of this call, and its row is at rank 0.
C3_UpdateNotDuplicate ==
    UpdatedExisting =>
        /\ Cardinality({ i \in 1..Len(history_data) : history_data[i].key = last.key }) = 1
        /\ Cardinality({ i \in 1..Len(View) : View[i] = last.key }) = 1
        /\ get_history_data(history_data, last.key).response = last.response
        /\ View[1] = last.key

\* a stored fingerprint was recorded again with another response, below other rows
C3_Witness ==
    /\ UpdatedExisting
    /\ last.response \in Responses
    /\ Len(history_data) >= 3
    /\ last.key = history_data[1].key

\* C4: the rows, top to bottom, are the stored fingerprints by their last
\* insert-or-update, most recent first; A, B, C recorded in this order give [C, B, A].
C4_RecencyOrder ==
    /\ View = touched
    /\ (log.pure /\ log.keys = <<FreshKey(1), FreshKey(2), FreshKey(3)>>)
           => View = <<FreshKey(3), FreshKey(2), FreshKey(1)>>

\* A, B, C were recorded and then A again: the rows are [A, C, B]
C4_Witness ==
    /\ UpdatedExisting
    /\ View = <<FreshKey(1), FreshKey(3), FreshKey(2)>>

\* C5: after N > max_items pairwise distinct fingerprints were recorded and nothing
\* else was called, the rows are the last max_items of them, newest first, and the
\* first N - max_items are not stored.
C5_CacheBound ==
    (log.pure /\ Len(log.keys) > max_items) =>
        LET N == Len(log.keys) IN
        /\ Len(View) = max_items
        /\ View = Reverse(SubSeq(log.keys, N - max_items + 1, N))
        /\ Reverse(Keys(history_data)) = View
        /\ \A i \in 1..(N - max_items) : ~HasKey(history_data, log.keys[i])

\* more than max_items + 1 distinct fingerprints were recorded, nothing else called
C5_Witness == log.pure /\ Len(log.keys) >= max_items + 2

\* C6: recording a stored fingerprint changes neither the number of entries nor the
\* set of stored fingerprints; recording a new one evicts at most one entry, and
\* one only if the history held max_items entries before the call.
C6_EvictionFrame ==
    [][(last'.op = "add" /\ last'.url # "") =>
          IF HasKey(history_data, last'.key)
          THEN /\ Len(history_data') = Len(history_data)
               /\ KeySet(history_data') = KeySet(history_data)
          ELSE /\ HasKey(history_data', last'.key)
               /\ Cardinality(Evicted) <= 1
               /\ Cardinality(Evicted) = 1 => Len(history_data) = max_items
               /\ Len(history_data') = Len(history_data) + 1 - Cardinality(Evicted)
      ]_vars

\* both cases have happened: an update in a history that overflowed before
C6_Witness ==
    /\ UpdatedExisting
    /\ used > max_items
    /\ Len(history_data) = max_items

\* C24: an update of a stored fingerprint changes only the stored response, the
\* subtitle and the rank of that entry: its method, url, request body, request
\* headers, title and row keep the values of the first record, also when the call
\* carried another body and other headers; every other entry and the order of the
\* other rows are unchanged.
C24_UpdateFrame ==
    [][(last'.op = "add" /\ last'.url # "" /\ HasKey(history_data, last'.key)) =>
          LET i == IndexOf(history_data, last'.key) IN
          /\ Len(history_data') = Len(history_data)
          /\ \A j \in 1..Len(history_data) : j # i => history_data'[j] = history_data[j]
          /\ DOMAIN history_data'[i] = DOMAIN history_data[i]
          /\ \A f \in DOMAIN history_data[i] \ { "response", "subtitle_label" } :
                 history_data'[i][f] = history_data[i][f]
          /\ history_data'[i].response = last'.response
          /\ View'[1] = last'.key
          /\ Without(View', last'.key) = Without(View, last'.key)
      ]_vars

\* a stored fingerprint, below other rows, was recorded again with another body
\* and other headers than the entry holds
C24_Witness ==
    /\ UpdatedExisting
    /\ Len(history_data) >= 3
    /\ View[1] = last.key
    /\ get_history_data(history_data, last.key).body # last.body
    /\ get_history_data(history_data, last.key).headers # last.headers
    /\ get_history_data(history_data, last.key).response = last.response

\* the history after the step
\* C28: the rows of the list are the rows of the stored entries: as many rows as
\* entries, the row of every entry once in the list, no row in the list that is
\* not the row of an entry, and get_request_key_from_row gives for the row of
\* every entry the key of that entry.
C28_RowsAreEntries ==
    /\ Len(history_list) = Len(history_data)
    /\ \A i \in 1..Len(history_data) :
           /\ Cardinality({ j \in 1..Len(history_list) :
                               history_list[j] = history_data[i].row }) = 1
           /\ get_request_key_from_row(history_data, history_data[i].row)
                  = history_data[i].key
    /\ \A j \in 1..Len(history_list) :
           \E i \in 1..Len(history_data) : history_data[i].row = history_list[j]

\* the rows are not in the order of the entries: the row of the entry created
\* first was moved to the top of the list by an update
C28_Witness ==
    /\ last.op = "add"
    /\ Len(history_data) >= 3
    /\ history_list[1] = history_data[1].row

HMnext == [ data |-> history_data', list |-> history_list' ]

\* the step is a call of remove_history_item
RemoveStep == extra' = extra + 1 /\ last'.op = "remove"

\* C17: remove_history_item deletes the entry of the key when it is stored and
\* changes nothing when it is not; a second call with the same key changes nothing
\* more; the other entries and the order of their rows stay as they were.
C17_RemoveIdempotent ==
    [][RemoveStep =>
          LET k == last'.key IN
          /\ ~HasKey(history_data', k)
          /\ HasKey(history_data, k) =>
                 /\ history_data' = SelectSeq(history_data, LAMBDA e : e.key # k)
                 /\ Len(history_data') = Len(history_data) - 1
                 /\ View' = Without(View, k)
          /\ ~HasKey(history_data, k) => UNCHANGED hmVars
          /\ remove_history_item(HMnext, k) = HMnext
      ]_vars

\* a stored entry that was neither created first nor last was removed
C17_Witness ==
    /\ last.op = "remove" /\ last.present /\ last.n >= 3
    /\ Len(history_data) = last.n - 1
    /\ last.key = FreshKey(2)

\* the step is a call of clear_history
ClearStep == extra' = extra + 1 /\ last'.op = "clear"

\* C18: after clear_history no entry is stored, the list has no row and
\* get_history_data finds nothing for any key; the state is the one reached by
\* remove_history_item for every stored key, in whatever order.
C18_ClearRemovesAll ==
    [][ClearStep =>
          /\ history_data' = <<>>
          /\ history_list' = <<>>
          /\ \A k \in KeySet(history_data) \cup { FreshKey(i) : i \in 1..NKeys } :
                 get_history_data(history_data', k) = "None"
          /\ HMnext = RemoveAll(HM, Keys(history_data))
          /\ HMnext = RemoveAll(HM, Reverse(Keys(history_data)))
      ]_vars

\* a full history was cleared
C18_Witness == last.op = "clear" /\ last.n = max_items /\ history_list = <<>>

\* the step is a call of add_to_history with an empty url
EmptyUrlStep == extra' = extra + 1 /\ last'.op = "add" /\ last'.url = ""

\* C19: add_to_history with an empty url changes neither the stored entries nor
\* their order nor the rows of the list, whatever the method and the response.
C19_EmptyUrlNoOp == [][EmptyUrlStep => UNCHANGED hmVars]_vars

\* the error variant was recorded with an empty url into a history with entries
C19_Witness ==
    /\ last.op = "add" /\ last.url = "" /\ last.n >= 2
    /\ last.response = ErrorResponse("timeout")
    /\ last.key = RequestKey("POST", "")

\* the glyph ranges: success [200,300), redirect [300,400), other for the rest
Bucket(status) ==
    IF status \in 200..299 THEN "success"
    ELSE IF status \in 300..399 THEN "redirect"
    ELSE "other"

\* the status of a response record, 0 for a record without a status code
StatusOf(response) ==
    IF "status_code" \in DOMAIN response THEN response.status_code ELSE 0

\* C20: the status code and the glyph shown for every entry are those of the
\* response stored in the entry: success for [200,300), redirect for [300,400),
\* other for the rest, the error variant and a record without status code included.
C20_GlyphOfStoredResponse ==
    \A i \in 1..Len(history_data) :
        LET e == history_data[i] IN
        /\ e.subtitle_label.status = StatusOf(e.response)
        /\ e.subtitle_label.emoji = Bucket(StatusOf(e.response))

\* an entry was updated to a record without fields; entries with the statuses
\* 299, 300, 399, 400 and 199 are stored as well
C20_Witness ==
    /\ UpdatedExisting /\ last.response = <<>>
    /\ get_history_data(history_data, last.key).subtitle_label.emoji = "other"
    /\ \A st \in {299, 300, 399, 400, 199} :
           \E i \in 1..Len(history_data) : StatusOf(history_data[i].response) = st

----------------------------------------------------------------------------
(* add_to_history called with arbitrary method and url strings *)

KeyMethods == { "GET", "A", "A_B" }
KeyUrls == { "", "C", "B_C", "http://h/1" }

RecordAny ==
    /\ Len(calls) < MaxCalls
    /\ \E method \in KeyMethods, url \in KeyUrls :
          LET after == add_to_history(HM, method, url, DefaultResponse,
                                      DefaultBody, DefaultHeaders)
          IN  /\ history_data' = after.data
              /\ history_list' = after.list
              /\ Observe("add", method, url, DefaultResponse, after)
              /\ calls' = Append(calls, <<method, url>>)
    /\ log' = Tainted
    /\ UNCHANGED <<used, extra, user, winVars, fmtVars>>

NextKey == RecordAny

SpecKey == Init /\ [][NextKey]_vars

\* the <<method, url>> pairs that were recorded (an empty url records nothing)
Recorded == { calls[i] : i \in { j \in DOMAIN calls : calls[j][2] # "" } }

\* C7: two add_to_history calls share a history slot only if method and url are both
\* equal: the calls made with n distinct <<method, url>> pairs leave n entries, one
\* for each pair.
C7_DistinctSlots ==
    /\ Len(history_data) = Cardinality(Recorded)
    /\ \A c \in Recorded :
          \E i \in 1..Len(history_data) :
              history_data[i].method = c[1] /\ history_data[i].url = c[2]

----------------------------------------------------------------------------
(* The main window: sending a request and handling its response *)

\* the thread that runs the GLib main loop; worker thread i is numbered i
MainThread == 0

WinUrls == { "", "example", "http://h/1", "http://h/2" }

\* a body nested deeper than the interpreter's recursion limit
DeepBody == "[[[[..."

WinBodies == { "", DeepBody }

\* urllib.parse.urlparse, on the urls of the model
urlparse(url) ==
    IF url \in { "http://h/1", "http://h/2" }
    THEN [ scheme |-> "http", netloc |-> "h" ]
    ELSE [ scheme |-> "", netloc |-> "" ]

validate_url(url) ==
    LET result == urlparse(url)
    IN  result.scheme # "" /\ result.netloc # ""

\* json.loads, on the bodies of the model: the exception it raises, if any
json_loads(body) ==
    IF body = DeepBody THEN [ raises |-> "RecursionError" ]
    ELSE IF body = "{}" THEN [ raises |-> "" ]
    ELSE [ raises |-> "JSONDecodeError" ]

\* what session.request does: a response with a status, or a RequestException
Transports ==
    { [ exc |-> "", status |-> 200 ],
      [ exc |-> "ConnectionError", status |-> 0 ],
      [ exc |-> "Timeout", status |-> 0 ] }

\* RequestHandler.send_request: the record it returns, or the exception that leaves it
send_request(method, url, headers, body, content_type, transport) ==
    \* body and body.strip(): no body of the model is blank without being empty
    LET parses == body # "" /\ content_type = "application/json"
    IN  IF parses /\ json_loads(body).raises \notin { "", "JSONDecodeError" }
        THEN [ raised |-> json_loads(body).raises, response |-> <<>> ]
        ELSE IF transport.exc # ""
        THEN [ raised |-> "", response |-> ErrorResponse(transport.exc) ]
        ELSE [ raised |-> "",
               response |-> NormalResponse(method, url, transport.status,
                                           "application/json", "{}") ]

\* variant: the callback is called directly, on the thread of the caller
idle_add_direct(caller, fn, req, response) ==
    [ on |-> caller, fn |-> fn, req |-> req, response |-> response ]

\* GLib.idle_add(fn, response): fn will run on the thread of the main loop
idle_add(caller, fn, req, response) ==
    [ on |-> MainThread, fn |-> fn, req |-> req, response |-> response ]

\* the main loop is not inside a callback
MainIdle == \A r \in running : r.on # MainThread

\* pending[k] is the next callback of its thread, and that thread is free
Runnable(k) ==
    /\ \A j \in 1..(k - 1) : pending[j].on # pending[k].on
    /\ \A r \in running : r.on # pending[k].on

RemoveAt(s, k) == SubSeq(s, 1, k - 1) \o SubSeq(s, k + 1, Len(s))

\* the requests whose network call has not returned
Sending == { i \in DOMAIN threads : threads[i].pc = "start" }

\* the user picks another method
SetMethod ==
    /\ MainIdle
    /\ user < MaxUser
    /\ \E i \in 1..Len(Methods) : Methods[i] # method_combo /\ method_combo' = Methods[i]
    /\ user' = user + 1
    /\ UNCHANGED <<fmtVars, hmVars, obsVars, used, extra, calls, url_entry, body_text, send_btn,
                   progress_bar, threads, pending, running, delivered>>

\* the user types another url
SetUrl ==
    /\ MainIdle
    /\ user < MaxUser
    /\ \E url \in WinUrls : url # url_entry /\ url_entry' = url
    /\ user' = user + 1
    /\ UNCHANGED <<fmtVars, hmVars, obsVars, used, extra, calls, method_combo, body_text, send_btn,
                   progress_bar, threads, pending, running, delivered>>

\* the user types another body
SetBody ==
    /\ MainIdle
    /\ user < MaxUser
    /\ \E body \in WinBodies : body # body_text /\ body_text' = body
    /\ user' = user + 1
    /\ UNCHANGED <<fmtVars, hmVars, obsVars, used, extra, calls, method_combo, url_entry, send_btn,
                   progress_bar, threads, pending, running, delivered>>

\* MainWindow.on_send_clicked, from the send button, the url entry's activate
\* signal, the quick send button or the send_request action
on_send_clicked ==
    /\ MainIdle
    /\ user < MaxUser
    /\ Len(threads) < MaxSends
    /\ \E source \in { "send_btn", "url_entry" } : source = "send_btn" => send_btn
    /\ IF url_entry = "" \/ ~validate_url(url_entry)
       THEN UNCHANGED vars
       ELSE /\ send_btn' = FALSE
            /\ progress_bar' = TRUE
            /\ threads' = Append(threads,
                  [ pc |-> "start", method |-> method_combo, url |-> url_entry,
                    headers |-> DefaultHeaders, body |-> body_text,
                    content_type |-> Get(DefaultHeaders, "Content-Type", "application/json"),
                    result |-> <<>>, overlap |-> Sending,
                    net_on |-> {}, handled_on |-> {}, fmt |-> 0, hist |-> 0 ])
            /\ user' = user + 1
            /\ UNCHANGED <<fmtVars, hmVars, obsVars, used, extra, calls, method_combo, url_entry,
                           body_text, pending, running, delivered>>

\* execute_in_thread, first statement: the request is sent on the worker thread
WorkerSendRequest ==
    /\ \E i \in DOMAIN threads, transport \in Transports :
          /\ threads[i].pc = "start"
          /\ LET t == threads[i]
                 out == send_request(t.method, t.url, t.headers, t.body,
                                     t.content_type, transport)
             IN  threads' = [ threads EXCEPT ![i].pc = IF out.raised # "" THEN "raised"
                                                       ELSE "returned",
                                             ![i].result = out.response,
                                             ![i].net_on = @ \cup {i} ]
    /\ UNCHANGED <<fmtVars, hmVars, obsVars, envVars, method_combo, url_entry, body_text,
                   send_btn, progress_bar, pending, running, delivered>>

\* execute_in_thread, second statement: GLib.idle_add(self.handle_response, response)
WorkerIdleAdd ==
    /\ \E i \in DOMAIN threads :
          /\ threads[i].pc = "returned"
          /\ pending' = Append(pending,
                               idle_add(i, "handle_response", i, threads[i].result))
          /\ threads' = [ threads EXCEPT ![i].pc = "done" ]
    /\ UNCHANGED <<fmtVars, hmVars, obsVars, envVars, method_combo, url_entry, body_text,
                   send_btn, progress_bar, running, delivered>>

\* MainWindow.handle_response: it schedules update_ui and returns
handle_response ==
    /\ \E k \in DOMAIN pending :
          /\ Runnable(k)
          /\ pending[k].fn = "handle_response"
          /\ LET item == pending[k]
             IN  /\ pending' = Append(RemoveAt(pending, k),
                                      idle_add(item.on, "update_ui", item.req, item.response))
                 /\ threads' = [ threads EXCEPT ![item.req].handled_on = @ \cup {item.on} ]
    /\ UNCHANGED <<fmtVars, hmVars, obsVars, envVars, method_combo, url_entry, body_text,
                   send_btn, progress_bar, running, delivered>>

\* update_ui up to the history: the button, the progress bar, the response view
UpdateUiBegin ==
    /\ \E k \in DOMAIN pending :
          /\ Runnable(k)
          /\ pending[k].fn = "update_ui"
          /\ LET item == pending[k]
             IN  /\ pending' = RemoveAt(pending, k)
                 /\ running' = running \cup
                        { [ on |-> item.on, req |-> item.req,
                            response |-> item.response, seen |-> HM ] }
                 /\ threads' = [ threads EXCEPT
                        ![item.req].handled_on = @ \cup {item.on},
                        ![item.req].fmt = IF "error" \in DOMAIN item.response
                                          THEN @ ELSE @ + 1 ]
    /\ send_btn' = TRUE
    /\ progress_bar' = FALSE
    /\ UNCHANGED <<fmtVars, hmVars, obsVars, envVars, method_combo, url_entry, body_text,
                   delivered>>

\* update_ui, "Add to history": the widgets are read and add_to_history is called
UpdateUiEnd ==
    /\ \E r \in running :
          LET after == add_to_history(HM, method_combo, url_entry, r.response,
                                      body_text, DefaultHeaders)
          IN  /\ history_data' = after.data
              /\ history_list' = after.list
              /\ ObserveSent("add", method_combo, url_entry, r.response,
                             body_text, DefaultHeaders, after)
              /\ running' = running \ {r}
              /\ threads' = [ threads EXCEPT ![r.req].hist = @ + 1,
                                             ![r.req].handled_on = @ \cup {r.on} ]
              /\ delivered' = Append(delivered, r.req)
    /\ log' = Tainted
    /\ UNCHANGED <<fmtVars, envVars, method_combo, url_entry, body_text, send_btn,
                   progress_bar, pending>>

NextWin ==
    \/ SetMethod \/ SetUrl \/ SetBody \/ on_send_clicked
    \/ WorkerSendRequest \/ WorkerIdleAdd
    \/ handle_response \/ UpdateUiBegin \/ UpdateUiEnd

SpecWin == Init /\ [][NextWin]_vars

----------------------------------------------------------------------------
(* Properties of the send / response path *)

Delivered == Range(delivered)

IsError(response) == "error" \in DOMAIN response

\* the request whose update_ui returned last among those sent with this method and url
LastDeliveredFor(method, url) ==
    LET at == { k \in DOMAIN delivered :
                   /\ threads[delivered[k]].method = method
                   /\ threads[delivered[k]].url = url }
    IN  delivered[CHOOSE k \in at : \A m \in at : m <= k]

\* request j was sent with the method and url of request i while i was being sent,
\* and the responses of both have been handled
RacedAndDelivered(i, j) ==
    /\ i \in threads[j].overlap
    /\ threads[i].method = threads[j].method
    /\ threads[i].url = threads[j].url
    /\ i \in Delivered /\ j \in Delivered

\* C8: when the same method and url is sent again before the first response has
\* returned, then after both responses were handled the history holds exactly one
\* entry for that fingerprint, with the response that was handled last.
C8_LastDeliveredWins ==
    \A i \in DOMAIN threads, j \in DOMAIN threads :
        RacedAndDelivered(i, j) =>
            LET key == RequestKey(threads[i].method, threads[i].url)
                winner == LastDeliveredFor(threads[i].method, threads[i].url)
            IN  /\ Cardinality({ k \in 1..Len(history_data) :
                                    history_data[k].key = key }) = 1
                /\ get_history_data(history_data, key).response = threads[winner].result

\* the callbacks of request i that are scheduled, running or finished
Tokens(i) ==
    Cardinality({ k \in DOMAIN pending : pending[k].req = i })
        + Cardinality({ r \in running : r.req = i })
        + Cardinality({ k \in DOMAIN delivered : delivered[k] = i })

\* C9 as claimed: every network call runs on its worker thread, and for every network
\* call whose record was handled, add_to_history and format_content ran exactly once,
\* on the main thread.
C9_BothExactlyOnce ==
    \A i \in DOMAIN threads :
        /\ threads[i].net_on \subseteq {i}
        /\ threads[i].handled_on \subseteq {MainThread}
        /\ i \in Delivered => threads[i].hist = 1 /\ threads[i].fmt = 1

\* C9 as amended: every network call runs on its worker thread; its record is handled
\* once, on the main thread only: add_to_history runs exactly once, format_content
\* exactly once for a response record and not at all for an error record; a callback
\* that has begun sees no other change of the history before it returns.
C9_OnceOnMainThread ==
    /\ \A i \in DOMAIN threads :
          /\ threads[i].net_on \subseteq {i}
          /\ MainThread \notin threads[i].net_on
          /\ threads[i].handled_on \subseteq {MainThread}
          /\ Tokens(i) = IF threads[i].pc = "done" THEN 1 ELSE 0
          /\ threads[i].hist = IF i \in Delivered THEN 1 ELSE 0
          /\ threads[i].fmt <= 1
          /\ i \in Delivered =>
                threads[i].fmt = IF IsError(threads[i].result) THEN 0 ELSE 1
    /\ Cardinality(running) <= 1
    /\ \A r \in running : r.on = MainThread /\ r.seen = HM

\* two requests were in flight together; an error record and a response record
\* have both been handled
C9_Witness ==
    /\ Len(delivered) = 2
    /\ 1 \in threads[2].overlap
    /\ threads[1].fmt = 0 /\ threads[1].hist = 1
    /\ threads[2].fmt = 1 /\ threads[2].hist = 1

\* C10: whatever happens while the request is prepared and sent, the worker obtains a
\* record (response or error variant) that it hands to handle_response; no exception
\* ends the worker instead, so the send button is not left insensitive.
C10_RecordAlwaysDelivered ==
    \A i \in DOMAIN threads :
        /\ threads[i].pc # "raised"
        /\ (threads[i].pc = "done" /\ pending = <<>> /\ running = {} /\ Sending = {})
              => (send_btn /\ ~progress_bar)

\* C23: the history entry recorded for a response carries the method, url, body
\* and headers its request was sent with, whatever the user edited between the
\* send and the arrival of the response.
C23_EntryCarriesSentRequest ==
    delivered # <<>> =>
        LET sent == threads[delivered[Len(delivered)]]
            key == RequestKey(sent.method, sent.url)
        IN  /\ HasKey(history_data, key)
            /\ get_history_data(history_data, key).method = sent.method
            /\ get_history_data(history_data, key).url = sent.url
            /\ get_history_data(history_data, key).body = sent.body
            /\ get_history_data(history_data, key).headers = sent.headers
            /\ get_history_data(history_data, key).response = sent.result

----------------------------------------------------------------------------
(* The calls on the Formatter *)

InitFmt ==
    /\ arg_content \in Contents
    /\ arg_content_type \in Hints
    /\ outcome = NoCall
    /\ history_data = <<>>
    /\ history_list = <<>>
    /\ last = [ op |-> "init" ]
    /\ touched = <<>>
    /\ log = [ pure |-> TRUE, keys |-> <<>> ]
    /\ used = 0
    /\ extra = 0
    /\ calls = <<>>
    /\ user = 0
    /\ method_combo = Methods[1]
    /\ url_entry = ""
    /\ body_text = ""
    /\ send_btn = TRUE
    /\ progress_bar = FALSE
    /\ threads = <<>>
    /\ pending = <<>>
    /\ running = {}
    /\ delivered = <<>>

FmtFrame == UNCHANGED <<arg_content, arg_content_type, hmVars, obsVars, envVars, winVars>>

FormatContent ==
    /\ outcome.op = "none"
    /\ Called("format_content", format_content(arg_content, arg_content_type))
    /\ FmtFrame

MinifyContent ==
    /\ outcome.op = "none"
    /\ Called("minify_content", minify_content(arg_content, arg_content_type))
    /\ FmtFrame

FormatJson ==
    /\ outcome.op = "none"
    /\ Called("format_json", format_json(arg_content))
    /\ FmtFrame

FormatXml ==
    /\ outcome.op = "none"
    /\ Called("format_xml", format_xml(arg_content))
    /\ FmtFrame

FormatHtml ==
    /\ outcome.op = "none"
    /\ Called("format_html", format_html(arg_content))
    /\ FmtFrame

IsJson ==
    /\ outcome.op = "none"
    /\ Called("_is_json", _is_json(arg_content))
    /\ FmtFrame

IsXml ==
    /\ outcome.op = "none"
    /\ Called("_is_xml", _is_xml(arg_content))
    /\ FmtFrame

IsHtml ==
    /\ outcome.op = "none"
    /\ Called("_is_html", _is_html(arg_content))
    /\ FmtFrame

\* the response bodies that are recorded in the history after they were formatted
RecordedBodies == { DeepText, <<"{", "\"", "a", "\"", ":", "1", ",", "}">> }

\* the response records made of a body and its type hint, and the error variant
RecordedResponses ==
    { [ status_code |-> 200, headers |-> ("Content-Type" :> arg_content_type),
        body |-> arg_content, response_time |-> 12, size |-> Len(arg_content),
        url |-> FreshUrl(1), method |-> FreshMethod(1), reason |-> "OK" ],
      ErrorResponse("timeout"),
      <<>> }

\* the history calls are made after format_content, as update_ui makes them
HistoryTurn ==
    /\ outcome.op \in { "format_content", "add_to_history", "remove_history_item",
                        "clear_history" }
    /\ arg_content \in RecordedBodies
    /\ extra < MaxRecorded

HistoryFrame == UNCHANGED <<arg_content, arg_content_type, used, calls, user, winVars>>

RecordFormatted ==
    /\ HistoryTurn
    /\ \E i \in 1..2, response \in RecordedResponses :
          LET after == add_to_history(HM, FreshMethod(i), FreshUrl(i), response,
                                      DefaultBody, DefaultHeaders)
          IN  /\ history_data' = after.data
              /\ history_list' = after.list
              /\ Observe("add", FreshMethod(i), FreshUrl(i), response, after)
              /\ outcome' = [ op |-> "add_to_history",
                              raised |-> add_to_history_raised(HM, FreshMethod(i),
                                                               FreshUrl(i), response),
                              value |-> <<>>, failed |-> FALSE ]
    /\ log' = Tainted
    /\ extra' = extra + 1
    /\ HistoryFrame

RemoveRecorded ==
    /\ HistoryTurn
    /\ \E i \in 1..2 :
          LET after == remove_history_item(HM, FreshKey(i))
          IN  /\ history_data' = after.data
              /\ history_list' = after.list
              /\ Observe("remove", FreshMethod(i), FreshUrl(i), "None", after)
              /\ outcome' = [ op |-> "remove_history_item",
                              raised |-> remove_history_item_raised(HM, FreshKey(i)),
                              value |-> <<>>, failed |-> FALSE ]
    /\ log' = Tainted
    /\ extra' = extra + 1
    /\ HistoryFrame

ClearRecorded ==
    /\ HistoryTurn
    /\ LET after == clear_history(HM)
       IN  /\ history_data' = after.data
           /\ history_list' = after.list
           /\ Observe("clear", "", "", "None", after)
           /\ outcome' = [ op |-> "clear_history", raised |-> clear_history_raised(HM),
                           value |-> <<>>, failed |-> FALSE ]
    /\ log' = Tainted
    /\ extra' = extra + 1
    /\ HistoryFrame

NextFmt ==
    \/ FormatContent \/ MinifyContent
    \/ FormatJson \/ FormatXml \/ FormatHtml
    \/ IsJson \/ IsXml \/ IsHtml
    \/ RecordFormatted \/ RemoveRecorded \/ ClearRecorded

SpecFmt == InitFmt /\ [][NextFmt]_vars

----------------------------------------------------------------------------
(* Properties of the Formatter *)

\* the call that was made and returned
Returned(op) == outcome.op = op /\ outcome.raised = "None"

\* C11: when format_json fails, what it returns is the JSON error marker with the
\* message of the parser, followed by the text exactly as it was passed in.
C11_ErrorKeepsOriginal ==
    (Returned("format_json") /\ outcome.failed) =>
        /\ Len(outcome.value) = Len(JsonErrorText("", arg_content))
        /\ outcome.value =
               JsonErrorText(outcome.value[Len(JsonErrorMarker) + 3], arg_content)

\* the hint selects a formatter as format_content reads it
UsableHint(content_type) ==
    /\ content_type # <<>>
    /\ \/ contains(content_type, HintJson)
       \/ contains(content_type, HintXml)
       \/ contains(content_type, HintHtml)

\* the outcome of the formatter that the hint selects
HintedFormat(content, content_type) ==
    IF contains(content_type, HintJson) THEN format_json(content)
    ELSE IF contains(content_type, HintXml) THEN format_xml(content)
    ELSE format_html(content)

\* C12: what format_json, format_xml and format_html return starts with the error
\* marker of the format exactly when the formatter failed; format_content with a
\* hint returns what the hinted formatter returns unless that formatter failed.
C12_MarkerIffFailed ==
    /\ Returned("format_json") =>
           (startswith(outcome.value, JsonErrorMarker) <=> outcome.failed)
    /\ Returned("format_xml") =>
           (startswith(outcome.value, XmlErrorMarker) <=> outcome.failed)
    /\ Returned("format_html") =>
           (startswith(outcome.value, HtmlErrorMarker) <=> outcome.failed)
    /\ (/\ Returned("format_content")
        /\ UsableHint(arg_content_type)
        /\ strip(arg_content) # <<>>
        /\ ~HintedFormat(strip(arg_content), arg_content_type).failed)
           => outcome.value = HintedFormat(strip(arg_content), arg_content_type).value

\* C13: format_content with a hint that holds json, xml or html in upper or mixed
\* case returns what it returns with the same hint in lower case.
C13_HintAnyCase ==
    (Returned("format_content") /\ UsableHint(lower(arg_content_type))) =>
        outcome.value = format_content(arg_content, lower(arg_content_type)).value

\* the text is classified PLAIN: not empty, no hint, and the checks for JSON, XML
\* and HTML all fail
Plain(content, content_type) ==
    /\ content # <<>>
    /\ content_type = <<>>
    /\ ~_is_json(content).value
    /\ ~_is_xml(content).value
    /\ ~_is_html(content).value

\* C14: for a text that is classified PLAIN, format_content returns the text as it
\* was passed in, white space at its ends included.
C14_PlainUnchanged ==
    (Returned("format_content") /\ Plain(arg_content, arg_content_type)) =>
        outcome.value = arg_content

\* the text is detected as JSON or the hint holds json in any letter case, and
\* the text does not parse
JsonThatFails(content, content_type) ==
    /\ content # <<>>
    /\ _is_json(content).value \/ contains(lower(content_type), HintJson)
    /\ loads(content).exc # "None"

\* C15: minify_content of a text that is detected or hinted as JSON and does not
\* parse returns the text unchanged, without an error marker, and raises nothing.
C15_MinifyFailsSilently ==
    (outcome.op = "minify_content" /\ JsonThatFails(arg_content, arg_content_type)) =>
        /\ outcome.raised = "None"
        /\ outcome.value = arg_content

\* C16: no exception leaves format_content, minify_content, the checks _is_json,
\* _is_xml and _is_html, add_to_history, remove_history_item or clear_history;
\* a format error is reported in the text that is returned.
C16_NothingRaised ==
    /\ outcome.raised = "None"
    /\ outcome.op \in { "_is_json", "_is_xml", "_is_html" } => outcome.value \in BOOLEAN
    /\ (outcome.op = "format_json" /\ outcome.failed) =>
           startswith(outcome.value, JsonErrorMarker)

\* the parser gave up on nested arrays with a RecursionError and format_json
\* returned the error text
C16_Witness ==
    /\ Returned("format_json") /\ outcome.failed
    /\ arg_content = DeepText
    /\ loads(arg_content).exc = "RecursionError"

\* arrays that hold nothing but one array, down to an empty array: [], [[]], ...
NestedArrays(x) ==
    \E n \in 1..Len(x) : x = [ i \in 1..(2 * n) |-> IF i <= n THEN "[" ELSE "]" ]

\* texts that are syntactically valid JSON: the texts the parser accepts, and
\* the nested arrays of any depth
ValidJson(x) == loads(x).exc = "None" \/ NestedArrays(x)

\* C21: for every text that is syntactically valid JSON, format_json applied to
\* what format_json returned returns the same text again.
C21_FormatJsonIdempotent ==
    (Returned("format_json") /\ ValidJson(arg_content)) =>
        /\ format_json(outcome.value).raised = "None"
        /\ format_json(outcome.value).value = outcome.value

\* the text is well-formed XML and has no XML declaration
WellFormedBare(x) ==
    /\ ~startswith(strip(x), <<"<", "?", "x", "m", "l">>)
    /\ parseString(AddDeclaration(strip(x))).exc = "None"

\* the lines of what format_xml returns for <a><b>x</b></a>, after the declaration
AbxLines ==
    << <<"<", "a", ">">>,
       <<" ", " ", "<", "b", ">", "x", "<", "/", "b", ">">>,
       <<"<", "/", "a", ">">> >>

\* C22: for well-formed XML without a declaration, the first line of what
\* format_xml returns is <?xml version="1.0" encoding="UTF-8"?>, no line is
\* blank, and <a><b>x</b></a> gives that declaration, <a>, two spaces and
\* <b>x</b>, </a>.
C22_StandardDeclarationFirst ==
    (Returned("format_xml") /\ WellFormedBare(arg_content)) =>
        /\ ~outcome.failed
        /\ split(outcome.value)[1] = XmlDeclaration
        /\ \A k \in DOMAIN split(outcome.value) : strip(split(outcome.value)[k]) # <<>>
        /\ arg_content = AbxText => split(outcome.value) = <<XmlDeclaration>> \o AbxLines

\* the string literals of a JSON text without escapes, in the order they appear:
\* the characters between a quote and the next quote
RECURSIVE StringLiterals(_, _)
StringLiterals(x, i) ==
    IF i > Len(x) THEN <<>>
    ELSE IF x[i] # "\"" THEN StringLiterals(x, i + 1)
    ELSE IF \A j \in (i + 1)..Len(x) : x[j] # "\"" THEN <<>>
    ELSE LET j == CHOOSE j \in (i + 1)..Len(x) :
                      x[j] = "\"" /\ \A m \in (i + 1)..(j - 1) : x[m] # "\""
         IN  <<SubSeq(x, i + 1, j - 1)>> \o StringLiterals(x, j + 1)

\* format_json succeeded on a text that did not parse before the repair pass
RepairedAndFormatted ==
    /\ Returned("format_json") /\ ~outcome.failed
    /\ loads(arg_content).exc # "None"

\* C25: when format_json succeeds after the repair pass, the strings (values and
\* keys) of what it returns are the strings of the text that was passed in, in
\* the same order, also when a string holds a comma followed by } or ].
C25_RepairKeepsStrings ==
    RepairedAndFormatted =>
        StringLiterals(outcome.value, 1) = StringLiterals(arg_content, 1)

----------------------------------------------------------------------------
(* The calls on the manual indenters *)

InitIndent ==
    /\ arg_content \in LineTexts
    /\ arg_content_type = <<>>
    /\ outcome = NoCall
    /\ history_data = <<>>
    /\ history_list = <<>>
    /\ last = [ op |-> "init" ]
    /\ touched = <<>>
    /\ log = [ pure |-> TRUE, keys |-> <<>> ]
    /\ used = 0
    /\ extra = 0
    /\ calls = <<>>
    /\ user = 0
    /\ method_combo = Methods[1]
    /\ url_entry = ""
    /\ body_text = ""
    /\ send_btn = TRUE
    /\ progress_bar = FALSE
    /\ threads = <<>>
    /\ pending = <<>>
    /\ running = {}
    /\ delivered = <<>>

SimpleXmlFormat ==
    /\ outcome.op = "none"
    /\ Called("_simple_xml_format", _simple_xml_format(arg_content))
    /\ FmtFrame

SimpleHtmlFormat ==
    /\ outcome.op = "none"
    /\ Called("_simple_html_format", _simple_html_format(arg_content))
    /\ FmtFrame

NextIndent == SimpleXmlFormat \/ SimpleHtmlFormat

SpecIndent == InitIndent /\ [][NextIndent]_vars

----------------------------------------------------------------------------
(* Properties of the manual indenters *)

\* the indenter that was called, applied to another text
SameIndenter(text) ==
    IF outcome.op = "_simple_xml_format" THEN _simple_xml_format(text).value
    ELSE _simple_html_format(text).value

\* a declaration, doctype or comment line, indented or not
SpecialLine(line) == strip(line) \in { CommentLine, DoctypeLine, DeclarationLine }

WithoutSpecial(lines) == SelectSeq(lines, LAMBDA line : ~SpecialLine(line))

\* C26: a declaration, doctype or comment line does not change the indent
\* counter of _simple_xml_format and _simple_html_format: the other lines are
\* printed as they are printed for the text without these lines.
C26_SpecialLinesKeepIndent ==
    outcome.op \in { "_simple_xml_format", "_simple_html_format" } =>
        join(WithoutSpecial(split(outcome.value)))
            = SameIndenter(join(WithoutSpecial(split(arg_content))))

\* the change of the nesting depth a line makes
Delta(line) == IF line = OpenLine THEN 1 ELSE IF line = CloseLine THEN -1 ELSE 0

\* the nesting depth before the k-th line
RECURSIVE DepthBefore(_, _)
DepthBefore(lines, k) ==
    IF k = 1 THEN 0 ELSE DepthBefore(lines, k - 1) + Delta(lines[k - 1])

\* every line holds one tag of the given kinds and the tags are well nested
WellNested(lines, kinds) ==
    /\ \A k \in DOMAIN lines :
           /\ lines[k] \in kinds
           /\ DepthBefore(lines, k) + Delta(lines[k]) >= 0
    /\ DepthBefore(lines, Len(lines) + 1) = 0

\* the lines at two spaces for each level: a closing tag at the depth of its
\* opening tag, every other line at the depth of the tags that are open
Nested(lines) ==
    [ k \in DOMAIN lines |->
        [ i \in 1..(2 * (DepthBefore(lines, k) + IF lines[k] = CloseLine THEN -1 ELSE 0))
            |-> " " ] \o lines[k] ]

\* the indent at which a line of text is printed after the lines of arg_content
\* is the value of the indent counter after the last line
CounterAfter ==
    LET out == split(SameIndenter(arg_content \o <<"\n", "x">>))
    IN  Len(out[Len(out)]) - 1

\* C30: for well-nested input with one tag on a line, both indenters print a
\* closing tag at the indent of its opening tag and a child two spaces deeper
\* than its parent, and the counter is 0 after the last line; self-closing
\* tags, void elements (in HTML) and elements that are closed on their line
\* leave the counter unchanged.
C30_NestedIndent ==
    /\ (/\ outcome.op = "_simple_xml_format"
        /\ WellNested(split(arg_content),
                      { OpenLine, CloseLine, SelfClosingLine, InlineLine }))
           => /\ split(outcome.value) = Nested(split(arg_content))
              /\ CounterAfter = 0
    /\ (/\ outcome.op = "_simple_html_format"
        /\ WellNested(split(arg_content),
                      { OpenLine, CloseLine, SelfClosingLine, InlineLine, VoidLine }))
           => /\ split(outcome.value) = Nested(split(arg_content))
              /\ CounterAfter = 0

\* an element that holds a void element and an element closed on its line was
\* indented by _simple_html_format, and an element in an element by
\* _simple_xml_format
C30_Witness ==
    \/ /\ outcome.op = "_simple_html_format"
       /\ split(arg_content) = <<OpenLine, VoidLine, InlineLine, CloseLine>>
       /\ split(outcome.value) = <<OpenLine, <<" ", " ">> \o VoidLine,
                                   <<" ", " ">> \o InlineLine, CloseLine>>

-----------------------------------------------------------------------------
(* The calls on the XML check with elements as the text *)

\* item, a, rss, as
TagNames == { <<"i", "t", "e", "m">>, <<"a">>, <<"r", "s", "s">>, <<"a", "s">> }

\* what follows the tag name up to the end of the opening tag:
\* >,  id="1">,  >,  tab b='2'>,  line break id="1">,  \>
TagRests ==
    { <<">">>,
      <<" ", "i", "d", "=", "\"", "1", "\"", ">">>,
      <<" ", ">">>,
      <<"\t", "b", "=", "'", "2", "'", ">">>,
      <<"\n", "i", "d", "=", "\"", "1", "\"", ">">>,
      <<"\\", ">">> }

\* what follows the opening tag up to the closing tag
TagBodies == { <<>>, <<"x">>, <<"<", "b", "/", ">">> }

\* an element, with or without its closing tag, with or without a leading space
Elements ==
    { lead \o <<"<">> \o name \o rest \o body
         \o (IF closed THEN <<"<", "/">> \o name \o <<">">> ELSE <<>>) :
      lead \in { <<>>, <<" ">> }, name \in TagNames, rest \in TagRests,
      body \in TagBodies, closed \in BOOLEAN }

InitCheck ==
    /\ arg_content \in Elements
    /\ arg_content_type = <<>>
    /\ outcome = NoCall
    /\ history_data = <<>>
    /\ history_list = <<>>
    /\ last = [ op |-> "init" ]
    /\ touched = <<>>
    /\ log = [ pure |-> TRUE, keys |-> <<>> ]
    /\ used = 0
    /\ extra = 0
    /\ calls = <<>>
    /\ user = 0
    /\ method_combo = Methods[1]
    /\ url_entry = ""
    /\ body_text = ""
    /\ send_btn = TRUE
    /\ progress_bar = FALSE
    /\ threads = <<>>
    /\ pending = <<>>
    /\ running = {}
    /\ delivered = <<>>

IsXmlElement ==
    /\ outcome.op = "none"
    /\ Called("_is_xml", _is_xml(arg_content))
    /\ FmtFrame

IsHtmlElement ==
    /\ outcome.op = "none"
    /\ Called("_is_html", _is_html(arg_content))
    /\ FmtFrame

NextCheck == IsXmlElement \/ IsHtmlElement

SpecCheck == InitCheck /\ [][NextCheck]_vars

\* the text, without the space around it, begins with "<" and a tag name of
\* letters and digits that starts with a letter, and the name is followed by
\* ">" or by white space
BeginsWithTag(content) ==
    LET c == strip(content)
    IN  /\ Len(c) >= 3
        /\ c[1] = "<"
        /\ c[2] \in Letters
        /\ TagNameEnd(c, 2) <= Len(c)
        /\ c[TagNameEnd(c, 2)] \in WS \cup { ">" }

\* C27: the XML check accepts every text that begins with "<" and a tag name,
\* whether the name is followed by ">" or by white space and attributes; such
\* a text holds an opening tag.
C27_XmlCheckAcceptsTags ==
    (outcome.op = "_is_xml" /\ BeginsWithTag(arg_content))
        => (outcome.raised = "None" /\ outcome.value = TRUE)

-----------------------------------------------------------------------------
(* The activation of a row of the history list *)

\* the responses send_request returns: received ones and the one of a RequestException
SentResponses ==
    { DefaultResponse,
      NormalResponse("GET", "http://h/", 301, "text/html", ""),
      ErrorResponse("timeout") }

\* the characters of the bodies and content types of the received responses
TextOf ==
    ("" :> <<>>) @@ ("{}" :> <<"{", "}">>)
    @@ ("application/json" :> <<"a", "p", "p", "l", "i", "c", "a", "t", "i", "o", "n",
                                "/", "j", "s", "o", "n">>)
    @@ ("text/html" :> <<"t", "e", "x", "t", "/", "h", "t", "m", "l">>)

\* the exception of response[field]
FieldError(response, field) == IF field \in DOMAIN response THEN "None" ELSE "KeyError"

\* l.555-560, formatted the outcome of format_content: the text of the response
\* view, or the exception of the first lookup that fails
LoadStatus(response, formatted) ==
    IF formatted.raised # "None" THEN formatted
    ELSE IF FieldError(response, "status_code") # "None" THEN Raise("KeyError")
    ELSE IF FieldError(response, "response_time") # "None" THEN Raise("KeyError")
    ELSE IF FieldError(response, "size") # "None" THEN Raise("KeyError")
    ELSE Return(formatted.value)

\* l.549-560 of _load_history_item: data['response']['headers'] is looked up first
LoadResponse(response) ==
    IF FieldError(response, "headers") # "None" THEN Raise("KeyError")
    ELSE IF FieldError(response, "body") # "None" THEN Raise("KeyError")
    ELSE LoadStatus(response,
                    format_content(TextOf[response.body],
                                   TextOf[Get(response.headers, "Content-Type", "")]))

\* update_ui records the response of a request that was sent
StoreResponse ==
    /\ outcome.op = "none"
    /\ used < MaxStored
    /\ \E i \in 1..HotKeys, response \in SentResponses, sent \in ReSends :
          LET after == add_to_history(HM, FreshMethod(i), FreshUrl(i), response,
                                      sent.body, sent.headers)
          IN  /\ history_data' = after.data
              /\ history_list' = after.list
              /\ ObserveSent("add", FreshMethod(i), FreshUrl(i), response,
                             sent.body, sent.headers, after)
    /\ used' = used + 1
    /\ UNCHANGED <<log, extra, calls, user, winVars, fmtVars>>

\* the user activates a row of the list: on_history_activated and _load_history_item
on_history_activated ==
    /\ outcome.op = "none"
    /\ \E j \in 1..Len(history_list) :
          LET request_key == get_request_key_from_row(history_data, history_list[j])
          IN  IF request_key = "None" \/ ~HasKey(history_data, request_key)
              THEN /\ Called("on_history_activated", Return(<<>>))
                   /\ UNCHANGED <<method_combo, url_entry, body_text, last>>
              ELSE LET data == get_history_data(history_data, request_key)
                   IN  /\ method_combo' = IF data.method \in Range(Methods)
                                          THEN data.method ELSE method_combo
                       /\ url_entry' = data.url
                       /\ body_text' = data.body
                       /\ Called("on_history_activated", LoadResponse(data.response))
                       /\ last' = [ op |-> "activate", key |-> request_key,
                                    n |-> Len(history_data) ]
    /\ UNCHANGED <<hmVars, touched, log, envVars, send_btn, progress_bar, threads,
                   pending, running, delivered, arg_content, arg_content_type>>

NextLoad == StoreResponse \/ on_history_activated

SpecLoad == Init /\ [][NextLoad]_vars

\* C29: the activation of a row of the history list raises nothing and loads
\* the entry of the row: its method, url and request body into the request view
\* and its formatted response body into the response view, also when the
\* response that is stored is the one of a failed request.
C29_ActivationLoadsEntry ==
    (outcome.op = "on_history_activated" /\ last.op = "activate") =>
        /\ outcome.raised = "None"
        /\ LET data == get_history_data(history_data, last.key)
           IN  /\ method_combo = data.method
               /\ url_entry = data.url
               /\ body_text = data.body
               /\ outcome.value
                     = format_content(TextOf[data.response.body],
                                      TextOf[data.response.headers["Content-Type"]]).value

====
